---- MODULE Spec2Model ----
(***************************************************************************)
(* A model of gomorph: typed single-step mappers, the ChainedMapper that   *)
(* composes them, the FieldMapping that binds a chain to two fields, the   *)
(* fluent FieldMappingBuilder, and the StructMapper with its reflective    *)
(* field extraction and assignment.                                        *)
(*                                                                         *)
(* A Go value of static type `any` is a record [typ, v]: its dynamic type  *)
(* (what reflect.TypeOf returns) and a payload.  The nil interface has the *)
(* dynamic type "nil".  A string is represented by its length, which is    *)
(* all the mappers of the test-suite look at.                              *)
(***************************************************************************)
EXTENDS Integers, Sequences, FiniteSets, TLC

VARIABLES
    cm,      \* the ChainedMapper last constructed (or the panic of its constructor)
    fm,      \* the FieldMapping last constructed
    call,    \* the last ChainedMapper.Map / FieldMapping.Map call and its outcome
    bld,     \* the FieldMappingBuilder under construction
    gcall,   \* the last getFieldValueByName call and its outcome
    acall,   \* the last assignValue call and its outcome
    sm,      \* the StructMapper last constructed
    scall,   \* the last StructMapper.From call and its outcome
    tcall,   \* the last TransformMapper.From call and its outcome
    slcall,  \* the SliceMapper under test, its last From call and the chain built over it
    hist,    \* the From calls made so far on the StructMapper, oldest first
    th,      \* the callers running From concurrently, each with the locals of its call
    client,  \* the stage values the builder's client holds and the calls it has made
    alias,   \* what the caller still holds of the slice or map it passed to a constructor
    lcall    \* a direct call of IdentityMapper.From, SliceMapper.From or GetField

vars == <<cm, fm, call, bld, gcall, acall, sm, scall, tcall, slcall, hist, th, client, alias, lcall>>

(***************************************************************************)
(* Bounds of the model.                                                    *)
(***************************************************************************)
MaxSteps == 2       \* longest chain handed to NewChainedMapper
MaxVal == 1         \* largest payload of an input value
MaxBindings == 2    \* longest binding list handed to NewStructMapper
MaxLen == 2         \* longest slice handed to SliceMapper.From
MaxCalls == 3       \* most From calls made on one StructMapper
MaxOps == 6         \* most calls made on one FieldMappingBuilder
MaxChain == 3       \* longest chain of the chains with several adjacent pairs

(***************************************************************************)
(* Types and values.                                                       *)
(***************************************************************************)
NilType == "nil"
ConcreteTypes == {"string", "int"}
TypeParams == ConcreteTypes \cup {"any"}

\* reflect.TypeOf(zero) for `var zero T`: the nil type when T is an interface.
TypeOfZero(T) == IF T = "any" THEN NilType ELSE T

Val(t, n) == [typ |-> t, v |-> n]
Nil == Val(NilType, 0)

\* `var zero T`
ZeroValue(T) == IF T = "any" THEN Nil ELSE Val(T, 0)

\* The ok of the type assertion x.(T): identical dynamic type for a concrete
\* T; any non-nil value for the interface type any.
TypeAssertOk(x, T) == IF T = "any" THEN x.typ # NilType ELSE x.typ = T

Values == {Val(t, n) : t \in ConcreteTypes, n \in 0..MaxVal}
AnyValues == Values \cup {Nil}

\* The values a variable of static type T can hold.
InputsOf(T) == IF T = "any" THEN AnyValues ELSE {x \in Values : x.typ = T}

(***************************************************************************)
(* Errors.  An error is the sequence of its frames, outermost first:       *)
(* fmt.Errorf("...: %w", err) puts one frame in front of err.  The nil     *)
(* error is the empty sequence.                                            *)
(***************************************************************************)
NoErr == <<>>
Frame(k, i, n) == [k |-> k, idx |-> i, name |-> n]
NewErr(k) == <<Frame(k, 0, "")>>
Wrap(f, err) == <<f>> \o err

\* The outcome of a call: (value, error), or a panic.
Ret(x, e) == [val |-> x, err |-> e, panic |-> ""]
Panic(msg) == [val |-> Nil, err |-> NoErr, panic |-> msg]

(***************************************************************************)
(* Single-step mappers (TypedMapper).  A step declares SourceType() and    *)
(* TargetType() and has a dynamically typed From.  The library is the      *)
(* steps of the repository and of its test-suite.                          *)
(***************************************************************************)
Step(n, s, t) == [name |-> n, src |-> s, tgt |-> t]

StringToIntMapper == Step("StringToIntMapper", "string", "int")
IntDoubler == Step("IntDoubler", "int", "int")
AlwaysFailingMapper == Step("AlwaysFailingMapper", "string", "string")
IdentityMapperString == Step("IdentityMapper[string]", "string", "string")
AlwaysPassValidator == Step("alwaysPassValidator", "string", "string")
MockStringToStringMapper == Step("MockStringToStringMapper", "string", "string")
LevelValidator == Step("LevelValidator", "int", "int")
\* The mock told to return nil and no error.
MockReturnsNil == Step("MockStringToStringMapper(nil)", "string", "string")

StepLib == {StringToIntMapper, IntDoubler, AlwaysFailingMapper, IdentityMapperString,
            AlwaysPassValidator, MockStringToStringMapper, LevelValidator}

\* What the mock is told to return: a value that is not of its declared
\* target type, and no error.
MockReturn == Ret(Val("int", 1), NoErr)

\* m.From(x)
StepFrom(m, x) ==
    CASE m.name = "StringToIntMapper" ->
            IF x.typ # "string" THEN Ret(Val("int", 0), NewErr("expected string"))
            ELSE Ret(Val("int", x.v), NoErr)
      [] m.name = "IntDoubler" ->
            IF x.typ # "int" THEN Ret(Val("int", 0), NewErr("expected int"))
            ELSE Ret(Val("int", 2 * x.v), NoErr)
      [] m.name = "AlwaysFailingMapper" ->
            Ret(Nil, NewErr("always fails error value"))
      [] m.name = "IdentityMapper[string]" ->
            IF x.typ # "string" THEN Panic("interface conversion")
            ELSE Ret(x, NoErr)
      [] m.name = "alwaysPassValidator" -> Ret(x, NoErr)
      [] m.name = "MockStringToStringMapper" -> MockReturn
      [] m.name = "MockStringToStringMapper(nil)" -> Ret(Nil, NoErr)
      [] m.name = "LevelValidator" ->
            IF x.typ # "int" THEN Ret(Val("int", 0), NewErr("expected int"))
            ELSE IF x.v < 1 THEN Ret(Val("int", 0), NewErr("level must be >= 1"))
            ELSE Ret(x, NoErr)

\* All step lists of at most n steps.
RECURSIVE StepSeqs(_)
StepSeqs(n) ==
    IF n = 0 THEN {<<>>}
    ELSE LET shorter == StepSeqs(n - 1) IN
         shorter \cup {Append(s, m) : s \in {t \in shorter : Len(t) = n - 1}, m \in StepLib}

(***************************************************************************)
(* ChainedMapper                                                           *)
(***************************************************************************)
NoPanic == [k |-> "", i |-> 0, j |-> 0]
Chain(st, TS, TD, mappers, p) ==
    [state |-> st, TS |-> TS, TD |-> TD, mappers |-> mappers, panic |-> p]
NoChain == Chain("none", "any", "any", <<>>, NoPanic)

\* A variant of the pair loop that stops one pair early.
RECURSIVE FirstPairMismatch_StopsEarly(_, _)
FirstPairMismatch_StopsEarly(mappers, i) ==
    IF i + 2 > Len(mappers) THEN 0
    ELSE IF mappers[i].tgt # mappers[i + 1].src THEN i
    ELSE FirstPairMismatch_StopsEarly(mappers, i + 1)

\* The loop over adjacent pairs: the 1-based position of the first step whose
\* TargetType() differs from the next step's SourceType(), or 0.
RECURSIVE FirstPairMismatch(_, _)
FirstPairMismatch(mappers, i) ==
    IF i + 1 > Len(mappers) THEN 0
    ELSE IF mappers[i].tgt # mappers[i + 1].src THEN i
    ELSE FirstPairMismatch(mappers, i + 1)

\* A variant of the constructor that checks the adjacent pairs before the endpoints.
NewChainedMapper_PairsFirst(TS, TD, mappers) ==
    IF Len(mappers) = 0 THEN Chain("built", TS, TD, mappers, NoPanic)
    ELSE IF FirstPairMismatch(mappers, 1) # 0
         THEN Chain("panicked", TS, TD, mappers,
                    [k |-> "type mismatch between mapper output and input",
                     i |-> FirstPairMismatch(mappers, 1) - 1, j |-> FirstPairMismatch(mappers, 1)])
    ELSE IF mappers[1].src # TypeOfZero(TS)
         THEN Chain("panicked", TS, TD, mappers, [k |-> "first mapper must accept", i |-> 0, j |-> 0])
    ELSE IF mappers[Len(mappers)].tgt # TypeOfZero(TD)
         THEN Chain("panicked", TS, TD, mappers, [k |-> "last mapper must produce", i |-> 0, j |-> 0])
    ELSE Chain("built", TS, TD, mappers, NoPanic)

\* NewChainedMapper[TS, TD](mappers...): the chain, or the panic; a panicked
\* construction returns nothing, and the record keeps the arguments of the call.
NewChainedMapper(TS, TD, mappers) ==
    IF Len(mappers) = 0 THEN Chain("built", TS, TD, mappers, NoPanic)
    ELSE IF mappers[1].src # TypeOfZero(TS)
         THEN Chain("panicked", TS, TD, mappers, [k |-> "first mapper must accept", i |-> 0, j |-> 0])
    ELSE IF mappers[Len(mappers)].tgt # TypeOfZero(TD)
         THEN Chain("panicked", TS, TD, mappers, [k |-> "last mapper must produce", i |-> 0, j |-> 0])
    ELSE LET p == FirstPairMismatch(mappers, 1) IN
         IF p # 0
         THEN Chain("panicked", TS, TD, mappers,
                    [k |-> "type mismatch between mapper output and input", i |-> p - 1, j |-> p])
         ELSE Chain("built", TS, TD, mappers, NoPanic)

\* The outcome of a Map call, with the calls it made to its steps in order.
Outcome(r, log) == [val |-> r.val, err |-> r.err, panic |-> r.panic, log |-> log]
Invoke(i, x) == [idx |-> i, in |-> x]

\* A variant of the loop that reports the failing step by its 0-based index.
RECURSIVE MapLoop_ZeroBased(_, _, _, _)
MapLoop_ZeroBased(c, i, current, log) ==
    IF i > Len(c.mappers) THEN Outcome(Ret(current, NoErr), log)
    ELSE LET r == StepFrom(c.mappers[i], current)
             log2 == Append(log, Invoke(i, current))
         IN  IF r.panic # "" THEN Outcome(r, log2)
             ELSE IF r.err # NoErr
                  THEN Outcome(Ret(ZeroValue(c.TD), Wrap(Frame("mapper chain failed at step", i - 1, ""), r.err)), log2)
             ELSE MapLoop_ZeroBased(c, i + 1, r.val, log2)

\* A variant of the loop that drops the output of a step instead of handing it on.
RECURSIVE MapLoop_DropsOutput(_, _, _, _)
MapLoop_DropsOutput(c, i, current, log) ==
    IF i > Len(c.mappers) THEN Outcome(Ret(current, NoErr), log)
    ELSE LET r == StepFrom(c.mappers[i], current)
             log2 == Append(log, Invoke(i, current))
         IN  IF r.panic # "" THEN Outcome(r, log2)
             ELSE IF r.err # NoErr
                  THEN Outcome(Ret(ZeroValue(c.TD), Wrap(Frame("mapper chain failed at step", i, ""), r.err)), log2)
             ELSE MapLoop_DropsOutput(c, i + 1, current, log2)

\* The loop of ChainedMapper.Map from step i on, `current` being the value so far.
RECURSIVE MapLoop(_, _, _, _)
MapLoop(c, i, current, log) ==
    IF i > Len(c.mappers) THEN Outcome(Ret(current, NoErr), log)
    ELSE LET r == StepFrom(c.mappers[i], current)
             log2 == Append(log, Invoke(i, current))
         IN  IF r.panic # "" THEN Outcome(r, log2)
             ELSE IF r.err # NoErr
                  THEN Outcome(Ret(ZeroValue(c.TD), Wrap(Frame("mapper chain failed at step", i, ""), r.err)), log2)
             ELSE MapLoop(c, i + 1, r.val, log2)

\* A variant of Map without the final type assertion.
ChainedMapperMap_NoFinalAssert(c, input) == MapLoop(c, 1, input, <<>>)

\* A variant of Map that refuses a chain without steps.
ChainedMapperMap_RejectsEmpty(c, input) ==
    IF c.mappers = <<>>
    THEN Outcome(Ret(ZeroValue(c.TD), NewErr("empty mapper chain")), <<>>)
    ELSE IF MapLoop(c, 1, input, <<>>).panic # "" \/ MapLoop(c, 1, input, <<>>).err # NoErr
    THEN MapLoop(c, 1, input, <<>>)
    ELSE IF ~TypeAssertOk(MapLoop(c, 1, input, <<>>).val, c.TD)
    THEN Outcome(Ret(ZeroValue(c.TD), NewErr("final type mismatch")), MapLoop(c, 1, input, <<>>).log)
    ELSE MapLoop(c, 1, input, <<>>)

\* c.Map(input)
ChainedMapperMap(c, input) ==
    LET l == MapLoop(c, 1, input, <<>>) IN
    IF l.panic # "" \/ l.err # NoErr THEN l
    ELSE IF ~TypeAssertOk(l.val, c.TD)
         THEN Outcome(Ret(ZeroValue(c.TD), NewErr("final type mismatch")), l.log)
    ELSE l

(***************************************************************************)
(* Field, TypedValue, FieldMapping                                         *)
(***************************************************************************)
\* NewField[T](name)
NewField(T, name) == [name |-> name, typ |-> TypeOfZero(T)]

\* NewTypedValue(value)
NewTypedValue(x) == [value |-> x, typ |-> x.typ]

\* NewFieldMappingResult(targetField, value)
NewFieldMappingResult(f, tv) == [targetField |-> f, mappedValue |-> tv]

\* NewFieldMapping[TS, TD](from, to, using)
NewFieldMapping(from, to, using) == [from |-> from, to |-> to, using |-> using]
NoFieldMapping == NewFieldMapping(NewField("any", ""), NewField("any", ""), NoChain)

\* A variant of Map that compares the value's runtime type with the source
\* Field's declared type instead of asserting the type parameter.
FieldMappingMap_ComparesFieldType(f, value) ==
    IF value.typ # f.from.typ
    THEN [res |-> NewFieldMappingResult(f.to, NewTypedValue(Nil)),
          err |-> NewErr("invalid source type"), panic |-> "", log |-> <<>>, chained |-> FALSE]
    ELSE LET r == ChainedMapperMap(f.using, value) IN
         IF r.panic # "" \/ r.err # NoErr
         THEN [res |-> NewFieldMappingResult(f.to, NewTypedValue(Nil)),
               err |-> r.err, panic |-> r.panic, log |-> r.log, chained |-> TRUE]
         ELSE [res |-> NewFieldMappingResult(f.to, NewTypedValue(r.val)),
               err |-> NoErr, panic |-> "", log |-> r.log, chained |-> TRUE]

\* fm.Map(value): the result, the error, and the calls made to the chain's steps.
FieldMappingMap(f, value) ==
    IF ~TypeAssertOk(value, f.using.TS)
    THEN [res |-> NewFieldMappingResult(f.to, NewTypedValue(Nil)),
          err |-> NewErr("invalid source type"), panic |-> "", log |-> <<>>, chained |-> FALSE]
    ELSE LET r == ChainedMapperMap(f.using, value) IN
         IF r.panic # "" \/ r.err # NoErr
         THEN [res |-> NewFieldMappingResult(f.to, NewTypedValue(Nil)),
               err |-> r.err, panic |-> r.panic, log |-> r.log, chained |-> TRUE]
         ELSE [res |-> NewFieldMappingResult(f.to, NewTypedValue(r.val)),
               err |-> NoErr, panic |-> "", log |-> r.log, chained |-> TRUE]

(***************************************************************************)
(* FieldMappingBuilder                                                     *)
(***************************************************************************)
NoStep == Step("", "", "")
NoField == [name |-> "", typ |-> NilType]

Builder(stage, TS, TD, from, to, validate, modifyType) ==
    [stage |-> stage, TS |-> TS, TD |-> TD, from |-> from, to |-> to,
     validate |-> validate, modifyType |-> modifyType]
NoBuilder == Builder("none", "any", "any", NoField, NoField, NoStep, NoStep)

\* A variant of SkipConversion that removes the stored converter.
SkipConversion_Clears(b) == [b EXCEPT !.modifyType = NoStep]

\* b.SkipConversion(): `return b`, the fields of the builder as they are.
SkipConversion(b) == b

\* b.SkipValidation(): `return b`
SkipValidation(b) == b

\* A variant of Build() that appends the validator before the converter.
BuildMappers_ValidatorFirst(b) ==
    (IF b.validate # NoStep THEN <<b.validate>> ELSE <<>>)
        \o (IF b.modifyType # NoStep THEN <<b.modifyType>> ELSE <<>>)

\* The step list Build() assembles.
BuildMappers(b) ==
    (IF b.modifyType # NoStep THEN <<b.modifyType>> ELSE <<>>)
        \o (IF b.validate # NoStep THEN <<b.validate>> ELSE <<>>)

\* The chain Build() hands to NewFieldMapping.
BuildChain(b) == NewChainedMapper(b.TS, b.TD, BuildMappers(b))

\* b.Build(), when the constructor of the chain does not panic.
Build(b) == NewFieldMapping(b.from, b.to, BuildChain(b))

(***************************************************************************)
(* The stage interfaces of the builder.  Every method of the builder       *)
(* returns the builder itself, typed as the interface of the next stage; a *)
(* client calls a method through a stage value it holds, and goes on       *)
(* holding the values it was given before.                                 *)
(***************************************************************************)
StageInterfaces == {"FromStep", "ConvertStep", "ValidateStep", "BuildStep"}

\* A variant of the method sets in which FromStep exposes Build as well.
MethodsOf_FromStepBuilds(iface) ==
    CASE iface = "FromStep" -> {"To", "Build"}
      [] iface = "ConvertStep" -> {"ConvertWith", "SkipConversion"}
      [] iface = "ValidateStep" -> {"ValidateWith", "SkipValidation"}
      [] iface = "BuildStep" -> {"Build"}

\* The method set of a stage interface.
MethodsOf(iface) ==
    CASE iface = "FromStep" -> {"To"}
      [] iface = "ConvertStep" -> {"ConvertWith", "SkipConversion"}
      [] iface = "ValidateStep" -> {"ValidateWith", "SkipValidation"}
      [] iface = "BuildStep" -> {"Build"}

\* The interface a method of the builder returns the builder as.
ReturnOf(method) ==
    CASE method = "From" -> "FromStep"
      [] method = "To" -> "ConvertStep"
      [] method \in {"ConvertWith", "SkipConversion"} -> "ValidateStep"
      [] method \in {"ValidateWith", "SkipValidation"} -> "BuildStep"

\* The client can call the method: it holds a stage value that exposes it.
Exposed(held, method) == \E iface \in held : method \in MethodsOf(iface)

Op(method, arg) == [op |-> method, arg |-> arg]
Client(held, ops) == [held |-> held, ops |-> ops]
NoClient == Client({}, <<>>)

\* The client after a call of method with arg, which returned a stage value.
Called(c, method, arg) == Client(c.held \cup {ReturnOf(method)}, Append(c.ops, Op(method, arg)))


(***************************************************************************)
(* Aggregates as reflection sees them.                                     *)
(*                                                                         *)
(* A source aggregate is a struct or a map (of a named or unnamed type),   *)
(* or the nil interface.  For every name it may have a field (struct), an  *)
(* entry (map) and a method; a struct may have a field and a method of one *)
(* name when the field is promoted from an embedded struct.  A pointer to  *)
(* a struct resolves like the struct: the code dereferences it for the     *)
(* field lookup and takes the address of a value for the method lookup.    *)
(* Names that start with a lower-case letter are unexported: reflection    *)
(* neither reads or sets such a field nor finds such a method.             *)
(***************************************************************************)
ExportedNames == {"A", "B", "X", "Y"}
Exported(name) == name \in ExportedNames

SrcNames == {"A", "B", "c"}
DstNames == {"X", "Y", "z"}

Absent == [present |-> FALSE, val |-> Nil]
Member(x) == [present |-> TRUE, val |-> x]
NoMethod == [present |-> FALSE, numIn |-> 0, numOut |-> 0, val |-> Nil, param |-> NilType]
\* func (t *T) Name() R, returning x
Getter(x) == [present |-> TRUE, numIn |-> 0, numOut |-> 1, val |-> x, param |-> NilType]
\* func (t *T) Name(p P)
Setter(P) == [present |-> TRUE, numIn |-> 1, numOut |-> 0, val |-> Nil, param |-> TypeOfZero(P)]
\* func (t *T) Name()
Procedure == [present |-> TRUE, numIn |-> 0, numOut |-> 0, val |-> Nil, param |-> NilType]

SourceObj(kind, fields, entries, methods) ==
    [kind |-> kind, fields |-> fields, entries |-> entries, methods |-> methods]
NoMembers == [n \in SrcNames |-> Absent]
NoMethods == [n \in SrcNames |-> NoMethod]
NilObj == SourceObj("nil", NoMembers, NoMembers, NoMethods)

\* The outcome of a lookup, with the tier that answered it.
Got(r, tier) == [val |-> r.val, err |-> r.err, panic |-> r.panic, tier |-> tier]

\* A variant of the lookup that tries the method before the map key.
getFieldValueByName_MethodFirst(obj, name) ==
    IF obj.kind = "struct" /\ obj.fields[name].present /\ Exported(name)
    THEN Got(Ret(obj.fields[name].val, NoErr), "field")
    ELSE IF obj.kind = "nil"
    THEN Got(Panic("reflect: call of reflect.Value.Type on zero Value"), "none")
    ELSE IF /\ obj.methods[name].present /\ Exported(name)
            /\ obj.methods[name].numIn = 0 /\ obj.methods[name].numOut = 1
    THEN Got(Ret(obj.methods[name].val, NoErr), "method")
    ELSE IF obj.kind = "map" /\ obj.entries[name].present
    THEN Got(Ret(obj.entries[name].val, NoErr), "map")
    ELSE Got(Ret(Nil, <<Frame("field or zero-arg getter not found", 0, name)>>), "none")

\* getFieldValueByName(obj, name): struct field, then map key, then method.
getFieldValueByName(obj, name) ==
    IF obj.kind = "struct" /\ obj.fields[name].present /\ Exported(name)
    THEN Got(Ret(obj.fields[name].val, NoErr), "field")
    ELSE IF obj.kind = "map" /\ obj.entries[name].present
    THEN Got(Ret(obj.entries[name].val, NoErr), "map")
    ELSE IF obj.kind = "nil"
    THEN Got(Panic("reflect: call of reflect.Value.Type on zero Value"), "none")
    ELSE IF /\ obj.methods[name].present /\ Exported(name)
            /\ obj.methods[name].numIn = 0 /\ obj.methods[name].numOut = 1
    THEN Got(Ret(obj.methods[name].val, NoErr), "method")
    ELSE Got(Ret(Nil, <<Frame("field or zero-arg getter not found", 0, name)>>), "none")

(***************************************************************************)
(* A destination aggregate: its type (for every name a field of some type, *)
(* a method, both or neither) and its state.  A setter stores its argument *)
(* in a private slot of its own.                                           *)
(***************************************************************************)
NoDstField == [present |-> FALSE, typ |-> NilType]
DstField(T) == [present |-> TRUE, typ |-> TypeOfZero(T)]

DestType(kind, fields, methods) == [kind |-> kind, fields |-> fields, methods |-> methods]

\* The zero value of a reflect type.
ZeroOfType(t) == IF t = NilType THEN Nil ELSE Val(t, 0)

\* `var output TDest`
ZeroDest(T) ==
    [fields |-> [n \in DstNames |-> IF T.fields[n].present THEN ZeroOfType(T.fields[n].typ) ELSE Nil],
     slots |-> [n \in DstNames |-> IF T.methods[n].present THEN ZeroOfType(T.methods[n].param) ELSE Nil]]

\* v.Type().AssignableTo(t): identical types, or t an interface the value implements.
AssignableTo(vt, t) == t = NilType \/ vt = t

Assigned(dest, err, panic, tier) == [dest |-> dest, err |-> err, panic |-> panic, tier |-> tier]

\* A variant of the assignment that goes on to the method when the field does
\* not accept the value.
assignValue_FallsThrough(T, dest, to, value) ==
    IF T.kind # "struct"
    THEN Assigned(dest, NoErr, "reflect: call of reflect.Value.FieldByName on non-struct Value", "none")
    ELSE IF value = Nil
    THEN Assigned(dest, NoErr, "reflect: call of reflect.Value.Type on zero Value", "none")
    ELSE IF T.fields[to].present /\ Exported(to) /\ AssignableTo(value.typ, T.fields[to].typ)
    THEN Assigned([dest EXCEPT !.fields[to] = value], NoErr, "", "field")
    ELSE IF /\ T.methods[to].present /\ Exported(to) /\ T.methods[to].numIn = 1
            /\ AssignableTo(value.typ, T.methods[to].param)
    THEN Assigned([dest EXCEPT !.slots[to] = value], NoErr, "", "method")
    ELSE Assigned(dest, <<Frame("could not assign or call method for", 0, to)>>, "", "none")

\* assignValue(&dest, to, value), dest being of type T.
assignValue(T, dest, to, value) ==
    IF T.kind # "struct"
    THEN Assigned(dest, NoErr, "reflect: call of reflect.Value.FieldByName on non-struct Value", "none")
    ELSE IF T.fields[to].present /\ Exported(to)
    THEN IF value = Nil
         THEN Assigned(dest, NoErr, "reflect: call of reflect.Value.Type on zero Value", "none")
         ELSE IF ~AssignableTo(value.typ, T.fields[to].typ)
         THEN Assigned(dest, NewErr("type mismatch: cannot assign"), "", "none")
         ELSE Assigned([dest EXCEPT !.fields[to] = value], NoErr, "", "field")
    ELSE IF T.methods[to].present /\ Exported(to) /\ T.methods[to].numIn = 1
    THEN IF value = Nil
         THEN Assigned(dest, NoErr, "reflect: call of reflect.Value.Type on zero Value", "none")
         ELSE IF ~AssignableTo(value.typ, T.methods[to].param)
         THEN Assigned(dest, <<Frame("cannot assign value to method", 0, to)>>, "", "none")
         ELSE Assigned([dest EXCEPT !.slots[to] = value], NoErr, "", "method")
    ELSE Assigned(dest, <<Frame("could not assign or call method for", 0, to)>>, "", "none")


(***************************************************************************)
(* StructMapper                                                            *)
(***************************************************************************)
\* What mapStruct did, in order: phase "extract", "map" or "assign" of binding b,
\* and call "step" of binding b's chain to its step number idx.
Event(ev, b, i) == [ev |-> ev, b |-> b, idx |-> i]

Mapped(dest, err, panic, log) == [dest |-> dest, err |-> err, panic |-> panic, log |-> log]

RECURSIVE mapStruct(_, _, _, _, _, _)

\* The rest of one pass of the loop once assignValue has returned a.
afterAssign(T, input, mappings, i, log, a) ==
    IF a.panic # "" THEN Mapped(a.dest, NoErr, a.panic, log)
    ELSE IF a.err # NoErr
    THEN Mapped(a.dest, Wrap(Frame("output error", 0, mappings[i].to.name), a.err), "", log)
    ELSE mapStruct(T, input, a.dest, mappings, i + 1, log)

\* A variant of the loop that reports a failed transformation as an input error.
afterMap_InputLabel(T, input, dest, mappings, i, log, r) ==
    IF r.panic # "" THEN Mapped(dest, NoErr, r.panic, log)
    ELSE IF r.err # NoErr
    THEN Mapped(dest, Wrap(Frame("input error", 0, mappings[i].from.name), r.err), "", log)
    ELSE afterAssign(T, input, mappings, i, Append(log, Event("assign", i, 0)),
                     assignValue(T, dest, mappings[i].to.name, r.res.mappedValue.value))

\* A variant of the loop that goes on to the next binding without assigning.
afterMap_SkipsAssign(T, input, dest, mappings, i, log, r) ==
    IF r.panic # "" THEN Mapped(dest, NoErr, r.panic, log)
    ELSE IF r.err # NoErr
    THEN Mapped(dest, Wrap(Frame("mapping error", 0, mappings[i].from.name), r.err), "", log)
    ELSE mapStruct(T, input, dest, mappings, i + 1, log)

\* The rest of one pass of the loop once fieldMapper.Map has returned r.
afterMap(T, input, dest, mappings, i, log, r) ==
    IF r.panic # "" THEN Mapped(dest, NoErr, r.panic, log)
    ELSE IF r.err # NoErr
    THEN Mapped(dest, Wrap(Frame("mapping error", 0, mappings[i].from.name), r.err), "", log)
    ELSE afterAssign(T, input, mappings, i, Append(log, Event("assign", i, 0)),
                     assignValue(T, dest, mappings[i].to.name, r.res.mappedValue.value))

\* A variant of the loop that skips a binding whose source cannot be read.
afterExtract_SkipsOnError(T, input, dest, mappings, i, log, g) ==
    IF g.panic # "" THEN Mapped(dest, NoErr, g.panic, log)
    ELSE IF g.err # NoErr
    THEN mapStruct(T, input, dest, mappings, i + 1, log)
    ELSE afterMap(T, input, dest, mappings, i,
                  Append(log, Event("map", i, 0))
                      \o [j \in 1..Len(FieldMappingMap(mappings[i], g.val).log) |->
                              Event("step", i, FieldMappingMap(mappings[i], g.val).log[j].idx)],
                  FieldMappingMap(mappings[i], g.val))

\* The rest of one pass of the loop once getFieldValueByName has returned g.
afterExtract(T, input, dest, mappings, i, log, g) ==
    IF g.panic # "" THEN Mapped(dest, NoErr, g.panic, log)
    ELSE IF g.err # NoErr
    THEN Mapped(dest, Wrap(Frame("input error", 0, mappings[i].from.name), g.err), "", log)
    ELSE afterMap(T, input, dest, mappings, i,
                  Append(log, Event("map", i, 0))
                      \o [j \in 1..Len(FieldMappingMap(mappings[i], g.val).log) |->
                              Event("step", i, FieldMappingMap(mappings[i], g.val).log[j].idx)],
                  FieldMappingMap(mappings[i], g.val))

\* The loop of mapStruct from binding i on, dest being the destination so far.
mapStruct(T, input, dest, mappings, i, log) ==
    IF i > Len(mappings) THEN Mapped(dest, NoErr, "", log)
    ELSE afterExtract(T, input, dest, mappings, i, Append(log, Event("extract", i, 0)),
                      getFieldValueByName(input, mappings[i].from.name))

\* NewStructMapper[TSource, TDest](mappings), TDest being the type T.
NewStructMapper(T, mappings) == [state |-> "built", TD |-> T, fieldMappings |-> mappings]

\* A variant of From that returns the zero destination with an error.
StructMapperFrom_ZeroOnError(b, input) ==
    IF mapStruct(b.TD, input, ZeroDest(b.TD), b.fieldMappings, 1, <<>>).err # NoErr
    THEN [mapStruct(b.TD, input, ZeroDest(b.TD), b.fieldMappings, 1, <<>>)
             EXCEPT !.dest = ZeroDest(b.TD)]
    ELSE mapStruct(b.TD, input, ZeroDest(b.TD), b.fieldMappings, 1, <<>>)

\* A variant of From that keeps its output between calls instead of declaring
\* a new one.
StructMapperFrom_KeepsOutput(b, input) ==
    mapStruct(b.TD, input, IF scall.op = "done" THEN scall.dest ELSE ZeroDest(b.TD),
              b.fieldMappings, 1, <<>>)

\* b.From(input): the destination is returned with the error.
StructMapperFrom(b, input) == mapStruct(b.TD, input, ZeroDest(b.TD), b.fieldMappings, 1, <<>>)


(***************************************************************************)
(* TransformMapper: dispatch on a key computed from the source.            *)
(*                                                                         *)
(* A source is a testSource{Value, Op}, a destination a testDest{Result}.  *)
(* A registry is a Go map from keys to transform functions: a function     *)
(* whose domain is the set of registered keys.                             *)
(***************************************************************************)
Keys == {"double", "triple", "unknown"}
TransformNames == {"double", "triple", "failing", "addMeta"}

TestSource(v, op) == [Value |-> v, Op |-> op]
TestDest(r) == [Result |-> r]
TestSources == {TestSource(v, op) : v \in 0..MaxVal, op \in Keys}
Metas == 0..MaxVal

\* `var zero TDest`
ZeroTestDest == TestDest(0)

\* transform(source, meta) for the transform function called fn.
Transform(fn, source, meta) ==
    CASE fn = "double" -> Ret(TestDest(source.Value * 2), NoErr)
      [] fn = "triple" -> Ret(TestDest(source.Value * 3), NoErr)
      [] fn = "addMeta" -> Ret(TestDest(source.Value + meta), NoErr)
      [] fn = "failing" -> Ret(TestDest(source.Value + 1), NewErr("transform failed"))

\* All maps from some of the keys to transform functions.
Mappings == UNION {[D -> TransformNames] : D \in SUBSET Keys}

\* NewMapResolver(mapping)
NewMapResolver(mapping) == [mapping |-> mapping]

\* r.Resolve(key)
Resolve(r, key) ==
    IF key \in DOMAIN r.mapping
    THEN [transform |-> r.mapping[key], ok |-> TRUE]
    ELSE [transform |-> "", ok |-> FALSE]

\* The keyFunc of the mapper: func(s testSource) string { return s.Op }
keyFunc(source) == source.Op

\* NewTransformMapper(resolver, meta, keyFunc)
NewTransformMapper(resolver, meta) == [resolver |-> resolver, meta |-> meta]

Invocation(fn, source, meta) == [fn |-> fn, source |-> source, meta |-> meta]
Dispatched(r, invoked) == [val |-> r.val, err |-> r.err, invoked |-> invoked]

\* A variant of From that falls back on the "double" transform for a key that
\* is not registered.
TransformMapperFrom_FallsBack(m, source) ==
    IF ~Resolve(m.resolver, keyFunc(source)).ok
    THEN Dispatched(Transform("double", source, m.meta),
                    <<Invocation("double", source, m.meta)>>)
    ELSE Dispatched(Transform(Resolve(m.resolver, keyFunc(source)).transform, source, m.meta),
                    <<Invocation(Resolve(m.resolver, keyFunc(source)).transform, source, m.meta)>>)

\* A variant of From that wraps the error of the transform.
TransformMapperFrom_WrapsError(m, source) ==
    IF ~Resolve(m.resolver, keyFunc(source)).ok
    THEN Dispatched(Ret(ZeroTestDest, <<Frame("no transform for key", 0, keyFunc(source))>>), <<>>)
    ELSE IF Transform(Resolve(m.resolver, keyFunc(source)).transform, source, m.meta).err # NoErr
    THEN Dispatched(Ret(ZeroTestDest,
                        Wrap(Frame("transform error", 0, keyFunc(source)),
                             Transform(Resolve(m.resolver, keyFunc(source)).transform,
                                       source, m.meta).err)),
                    <<Invocation(Resolve(m.resolver, keyFunc(source)).transform, source, m.meta)>>)
    ELSE Dispatched(Transform(Resolve(m.resolver, keyFunc(source)).transform, source, m.meta),
                    <<Invocation(Resolve(m.resolver, keyFunc(source)).transform, source, m.meta)>>)

\* m.From(source)
TransformMapperFrom(m, source) ==
    LET key == keyFunc(source)
        found == Resolve(m.resolver, key)
    IN  IF ~found.ok
        THEN Dispatched(Ret(ZeroTestDest, <<Frame("no transform for key", 0, key)>>), <<>>)
        ELSE Dispatched(Transform(found.transform, source, m.meta),
                        <<Invocation(found.transform, source, m.meta)>>)


(***************************************************************************)
(* SliceMapper[TSource, TDest, T, D]: an element step lifted to slices.    *)
(*                                                                         *)
(* A slice value carries its dynamic type and its elements.  The unnamed   *)
(* slice type of T is []T; Names is a named type whose underlying type is  *)
(* []string, so it satisfies the constraint ~[]string but is another type. *)
(***************************************************************************)
SliceType(T) ==
    CASE T = "string" -> "[]string"
      [] T = "int" -> "[]int"
      [] T = "any" -> "[]any"

\* The slice types that satisfy the constraint ~[]T.
SlicesOf(T) == {SliceType(T)} \cup (IF T = "string" THEN {"Names"} ELSE {})

SliceVal(t, elems) == [typ |-> t, elems |-> elems]

\* NewSliceMapper[TSource, TDest, T, D](elementMapper)
NewSliceMapper(TSource, TDest, T, D, elementMapper) ==
    [TSource |-> TSource, TDest |-> TDest, T |-> T, D |-> D, elementMapper |-> elementMapper]

\* stm.SourceType(): the type of `var zero Tsource`
SliceMapperSourceType(stm) == TypeOfZero(stm.TSource)

\* stm.TargetType(): the type of `var zero T`
SliceMapperTargetType(stm) == TypeOfZero(stm.T)

\* The slice mapper as a step of a chain.
SliceStep(stm) == Step("SliceMapper", SliceMapperSourceType(stm), SliceMapperTargetType(stm))

\* `source.([]T)`
IsSliceOfT(source, T) == source.typ = SliceType(T)

\* A variant of the loop that annotates the error with the element's index.
RECURSIVE SliceLoop_AnnotatesIndex(_, _, _, _, _)
SliceLoop_AnnotatesIndex(stm, elems, i, result, log) ==
    IF i > Len(elems) THEN Outcome(Ret(SliceVal(stm.TDest, result), NoErr), log)
    ELSE IF StepFrom(stm.elementMapper, elems[i]).panic # ""
    THEN Outcome(StepFrom(stm.elementMapper, elems[i]), Append(log, Invoke(i - 1, elems[i])))
    ELSE IF StepFrom(stm.elementMapper, elems[i]).err # NoErr
    THEN Outcome(Ret(Nil, Wrap(Frame("element", i - 1, ""),
                               StepFrom(stm.elementMapper, elems[i]).err)),
                 Append(log, Invoke(i - 1, elems[i])))
    ELSE IF ~TypeAssertOk(StepFrom(stm.elementMapper, elems[i]).val, stm.D)
    THEN Outcome(Panic("interface conversion"), Append(log, Invoke(i - 1, elems[i])))
    ELSE SliceLoop_AnnotatesIndex(stm, elems, i + 1,
                                  Append(result, StepFrom(stm.elementMapper, elems[i]).val),
                                  Append(log, Invoke(i - 1, elems[i])))

\* The loop of From from the element at position i on: `transformed.(D)` is an
\* unchecked assertion and panics when the result is not of D.  The log holds
\* the elements handed to the element step, with their indices.
RECURSIVE SliceLoop(_, _, _, _, _)
SliceLoop(stm, elems, i, result, log) ==
    IF i > Len(elems) THEN Outcome(Ret(SliceVal(stm.TDest, result), NoErr), log)
    ELSE IF StepFrom(stm.elementMapper, elems[i]).panic # ""
    THEN Outcome(StepFrom(stm.elementMapper, elems[i]), Append(log, Invoke(i - 1, elems[i])))
    ELSE IF StepFrom(stm.elementMapper, elems[i]).err # NoErr
    THEN Outcome(Ret(Nil, StepFrom(stm.elementMapper, elems[i]).err),
                 Append(log, Invoke(i - 1, elems[i])))
    ELSE IF ~TypeAssertOk(StepFrom(stm.elementMapper, elems[i]).val, stm.D)
    THEN Outcome(Panic("interface conversion"), Append(log, Invoke(i - 1, elems[i])))
    ELSE SliceLoop(stm, elems, i + 1,
                   Append(result, StepFrom(stm.elementMapper, elems[i]).val),
                   Append(log, Invoke(i - 1, elems[i])))

\* A variant of From that takes any slice and leaves the elements to the step.
SliceMapperFrom_AnySlice(stm, source) ==
    IF "elems" \notin DOMAIN source
    THEN Outcome(Ret(Nil, NewErr("invalid source type")), <<>>)
    ELSE SliceLoop(stm, source.elems, 1, <<>>, <<>>)

\* stm.From(source)
SliceMapperFrom(stm, source) ==
    IF ~IsSliceOfT(source, stm.T)
    THEN Outcome(Ret(Nil, NewErr("invalid source type")), <<>>)
    ELSE SliceLoop(stm, source.elems, 1, <<>>, <<>>)


(***************************************************************************)
(* IdentityMapper[T] and GetField, called on their own.                    *)
(***************************************************************************)
\* IdentityMapper[T]{}.From(source): `return source.(T), nil`, an assertion
\* without the ok result, which panics when it fails.
IdentityMapperFrom(T, source) ==
    IF TypeAssertOk(source, T) THEN Ret(source, NoErr)
    ELSE Panic("interface conversion")

\* &ValidationError{Field, Value, Message}; the nil error is NoValidationError.
ValidationError(field, value, message) ==
    [set |-> TRUE, Field |-> field, Value |-> value, Message |-> message]
NoValidationError == [set |-> FALSE, Field |-> "", Value |-> Nil, Message |-> ""]

\* What GetField returns, with the record as the call leaves it.
Fetched(x, e, record) == [val |-> x, verr |-> e, record |-> record]

\* A variant of GetField that returns what is stored without asserting its type.
GetField_Unasserted(T, record, name) ==
    IF name \notin DOMAIN record
    THEN Fetched(ZeroValue(T), ValidationError(name, Nil, "not found"), record)
    ELSE Fetched(record[name], NoValidationError, record)

\* GetField[T](record, field), name being field.Name()
GetField(T, record, name) ==
    IF name \notin DOMAIN record
    THEN Fetched(ZeroValue(T), ValidationError(name, Nil, "not found"), record)
    ELSE IF ~TypeAssertOk(record[name], T)
    THEN Fetched(ZeroValue(T), ValidationError(name, record[name], "expected type"), record)
    ELSE Fetched(record[name], NoValidationError, record)

(***************************************************************************)
(* Concurrent callers of one StructMapper.                                 *)
(*                                                                         *)
(* A call of From runs in its caller's goroutine.  Its locals (the output  *)
(* of From, the loop position and values of mapStruct, the current value   *)
(* and the step index of ChainedMapper.Map) are the caller's own; the      *)
(* StructMapper, its FieldMappings and their ChainedMappers are shared and *)
(* only read.  A step of a caller is one phase of one binding: the read of *)
(* the source, the source type assertion of FieldMapping.Map, one step of  *)
(* the chain or its final assertion, the assignment.                       *)
(***************************************************************************)
Callers == {"a", "b"}

Thread(pc, b, input, i, x, k, dest, err, panic, overlapped) ==
    [pc |-> pc, sm |-> b, input |-> input, i |-> i, x |-> x, k |-> k, dest |-> dest,
     err |-> err, panic |-> panic, overlapped |-> overlapped]

InFlight(t) == t.pc \notin {"idle", "done"}

\* The call returns: mapStruct has returned err, or some callee has panicked.
Returns(t, err, panic) == [t EXCEPT !.pc = "done", !.err = err, !.panic = panic]

\* `var output TDest` and the entry of the loop of mapStruct.
ThreadBegin(b, input, overlapped) ==
    Thread(IF Len(b.fieldMappings) = 0 THEN "done" ELSE "extract",
           b, input, 1, Nil, 0, ZeroDest(b.TD), NoErr, "", overlapped)

\* getFieldValueByName(input, fromName) and the check of its error.
ThreadExtract(b, t) ==
    LET g == getFieldValueByName(t.input, b.fieldMappings[t.i].from.name) IN
    IF g.panic # "" THEN Returns(t, NoErr, g.panic)
    ELSE IF g.err # NoErr
    THEN Returns(t, Wrap(Frame("input error", 0, b.fieldMappings[t.i].from.name), g.err), "")
    ELSE [t EXCEPT !.pc = "check", !.x = g.val]

\* The `value.(TSource)` of FieldMapping.Map.
ThreadCheck(b, t) ==
    IF ~TypeAssertOk(t.x, b.fieldMappings[t.i].using.TS)
    THEN Returns(t, Wrap(Frame("mapping error", 0, b.fieldMappings[t.i].from.name),
                         NewErr("invalid source type")), "")
    ELSE [t EXCEPT !.pc = "step", !.k = 1]

\* One pass of the loop of ChainedMapper.Map, or after the loop its final
\* assertion `current.(TDest)`.
ThreadStep(b, t) ==
    LET c == b.fieldMappings[t.i].using
        from == b.fieldMappings[t.i].from.name
    IN  IF t.k > Len(c.mappers)
        THEN IF ~TypeAssertOk(t.x, c.TD)
             THEN Returns(t, Wrap(Frame("mapping error", 0, from),
                                  NewErr("final type mismatch")), "")
             ELSE [t EXCEPT !.pc = "assign"]
        ELSE LET r == StepFrom(c.mappers[t.k], t.x) IN
             IF r.panic # "" THEN Returns(t, NoErr, r.panic)
             ELSE IF r.err # NoErr
             THEN Returns(t, Wrap(Frame("mapping error", 0, from),
                                  Wrap(Frame("mapper chain failed at step", t.k, ""), r.err)), "")
             ELSE [t EXCEPT !.x = r.val, !.k = t.k + 1]

\* The control of the caller after assignValue has returned a.
ThreadAssigned(b, t, a) ==
    IF a.panic # "" THEN Returns(t, NoErr, a.panic)
    ELSE IF a.err # NoErr
    THEN Returns(t, Wrap(Frame("output error", 0, b.fieldMappings[t.i].to.name), a.err), "")
    ELSE IF t.i = Len(b.fieldMappings) THEN [t EXCEPT !.pc = "done"]
    ELSE [t EXCEPT !.pc = "extract", !.i = t.i + 1]

\* A variant in which every caller's assignment lands in the output of caller a.
OutputOwner_Shared(c) == "a"

\* The caller whose output the assignment of caller c writes: its own.
OutputOwner(c) == c


(***************************************************************************)
(* The chain, the field mapping and the builder as a state machine: each   *)
(* action is one call of the API by a client, which constructs one chain   *)
(* (directly or through one builder) and then applies it any number of     *)
(* times.                                                                  *)
(***************************************************************************)
NoCall == [op |-> "none", input |-> Nil, val |-> Nil, target |-> NoField,
           err |-> NoErr, panic |-> "", log |-> <<>>, chained |-> FALSE]

EmptyType == DestType("struct", [n \in DstNames |-> NoDstField], [n \in DstNames |-> NoMethod])
NoGet == [op |-> "none", obj |-> NilObj, name |-> "", val |-> Nil, err |-> NoErr,
          panic |-> "", tier |-> "none"]
NoAssign == [op |-> "none", T |-> EmptyType, before |-> ZeroDest(EmptyType), to |-> "",
             value |-> Nil, dest |-> ZeroDest(EmptyType), err |-> NoErr, panic |-> "",
             tier |-> "none"]
NoStructMapper == [state |-> "none", TD |-> EmptyType, fieldMappings |-> <<>>]
NoFrom == [op |-> "none", input |-> NilObj, dest |-> ZeroDest(EmptyType), err |-> NoErr,
           panic |-> "", log |-> <<>>]

NoTransformCall == [op |-> "none", m |-> NewTransformMapper(NewMapResolver(<<>>), 0),
                    source |-> TestSource(0, ""), val |-> ZeroTestDest, err |-> NoErr,
                    invoked |-> <<>>]

NoSliceCall == [op |-> "none", stm |-> NewSliceMapper("[]any", "[]any", "any", "any", NoStep),
                source |-> Nil, val |-> Nil, err |-> NoErr, panic |-> "", log |-> <<>>,
                chain |-> NoChain]

NoHistory == <<>>

IdleThread == Thread("idle", NoStructMapper, NilObj, 0, Nil, 0, ZeroDest(EmptyType), NoErr, "", FALSE)
NoThreads == [c \in Callers |-> IdleThread]

NoAlias == [kept |-> {}, written |-> FALSE,
            orig |-> [cm |-> NoChain, sm |-> NoStructMapper, m |-> NoTransformCall.m]]

NoLibCall == [op |-> "none", fn |-> "", T |-> "any", source |-> Nil,
              stm |-> NoSliceCall.stm, name |-> "", record |-> <<>>, after |-> <<>>,
              val |-> Nil, err |-> NoErr, verr |-> NoValidationError, panic |-> ""]

ChainIdle == cm = NoChain /\ fm = NoFieldMapping /\ call = NoCall /\ bld = NoBuilder
StructIdle == gcall = NoGet /\ acall = NoAssign /\ sm = NoStructMapper /\ scall = NoFrom

Init ==
    /\ lcall = NoLibCall
    /\ alias = NoAlias
    /\ client = NoClient
    /\ th = NoThreads
    /\ hist = NoHistory
    /\ slcall = NoSliceCall
    /\ tcall = NoTransformCall
    /\ cm = NoChain
    /\ fm = NoFieldMapping
    /\ call = NoCall
    /\ bld = NoBuilder
    /\ StructIdle

NewChainedMapperCall ==
    /\ cm = NoChain
    /\ bld = NoBuilder
    /\ \E TS \in TypeParams, TD \in TypeParams, mappers \in StepSeqs(MaxSteps) :
         cm' = NewChainedMapper(TS, TD, mappers)
    /\ UNCHANGED <<lcall, alias, client, th, hist, slcall, tcall, fm, call, bld, gcall, acall, sm, scall>>

NewFieldMappingCall ==
    /\ cm.state = "built"
    /\ bld = NoBuilder
    /\ fm' = NewFieldMapping(NewField(cm.TS, "src"), NewField(cm.TD, "dst"), cm)
    /\ call' = NoCall
    /\ UNCHANGED <<lcall, alias, client, th, hist, slcall, tcall, cm, bld, gcall, acall, sm, scall>>

ChainMapCall ==
    /\ cm.state = "built"
    /\ \E input \in InputsOf(cm.TS) :
         LET r == ChainedMapperMap(cm, input) IN
         call' = [op |-> "ChainedMapper.Map", input |-> input, val |-> r.val,
                  target |-> NoField, err |-> r.err, panic |-> r.panic,
                  log |-> r.log, chained |-> TRUE]
    /\ UNCHANGED <<lcall, alias, client, th, hist, slcall, tcall, cm, fm, bld, gcall, acall, sm, scall>>

FieldMapCall ==
    /\ fm # NoFieldMapping
    /\ \E value \in AnyValues :
         LET r == FieldMappingMap(fm, value) IN
         call' = [op |-> "FieldMapping.Map", input |-> value,
                  val |-> r.res.mappedValue.value, target |-> r.res.targetField,
                  err |-> r.err, panic |-> r.panic, log |-> r.log, chained |-> r.chained]
    /\ UNCHANGED <<lcall, alias, client, th, hist, slcall, tcall, cm, fm, bld, gcall, acall, sm, scall>>

\* From[TS, TD](field)
BuilderFrom ==
    /\ cm = NoChain
    /\ bld = NoBuilder
    /\ \E TS \in TypeParams, TD \in TypeParams :
         bld' = Builder("FromStep", TS, TD, NewField(TS, "src"), NoField, NoStep, NoStep)
    /\ UNCHANGED <<lcall, alias, client, th, hist, slcall, tcall, cm, fm, call, gcall, acall, sm, scall>>

\* b.To(field)
BuilderTo ==
    /\ bld.stage = "FromStep"
    /\ bld' = [bld EXCEPT !.stage = "ConvertStep", !.to = NewField(bld.TD, "dst")]
    /\ UNCHANGED <<lcall, alias, client, th, hist, slcall, tcall, cm, fm, call, gcall, acall, sm, scall>>

\* b.ConvertWith(modifier)
BuilderConvertWith ==
    /\ bld.stage = "ConvertStep"
    /\ \E m \in StepLib : bld' = [bld EXCEPT !.stage = "ValidateStep", !.modifyType = m]
    /\ UNCHANGED <<lcall, alias, client, th, hist, slcall, tcall, cm, fm, call, gcall, acall, sm, scall>>

\* b.SkipConversion()
BuilderSkipConversion ==
    /\ bld.stage = "ConvertStep"
    /\ bld' = [bld EXCEPT !.stage = "ValidateStep"]
    /\ UNCHANGED <<lcall, alias, client, th, hist, slcall, tcall, cm, fm, call, gcall, acall, sm, scall>>

\* b.ValidateWith(validator)
BuilderValidateWith ==
    /\ bld.stage = "ValidateStep"
    /\ \E m \in StepLib : bld' = [bld EXCEPT !.stage = "BuildStep", !.validate = m]
    /\ UNCHANGED <<lcall, alias, client, th, hist, slcall, tcall, cm, fm, call, gcall, acall, sm, scall>>

\* b.SkipValidation()
BuilderSkipValidation ==
    /\ bld.stage = "ValidateStep"
    /\ bld' = [bld EXCEPT !.stage = "BuildStep"]
    /\ UNCHANGED <<lcall, alias, client, th, hist, slcall, tcall, cm, fm, call, gcall, acall, sm, scall>>

\* b.Build()
BuilderBuild ==
    /\ bld.stage = "BuildStep"
    /\ cm = NoChain
    /\ cm' = BuildChain(bld)
    /\ fm' = IF cm'.state = "built" THEN Build(bld) ELSE NoFieldMapping
    /\ UNCHANGED <<lcall, alias, client, th, hist, slcall, tcall, bld, call, gcall, acall, sm, scall>>

Next ==
    \/ NewChainedMapperCall
    \/ NewFieldMappingCall
    \/ ChainMapCall
    \/ FieldMapCall
    \/ BuilderFrom
    \/ BuilderTo
    \/ BuilderConvertWith
    \/ BuilderSkipConversion
    \/ BuilderValidateWith
    \/ BuilderSkipValidation
    \/ BuilderBuild

Spec == Init /\ [][Next]_vars

(***************************************************************************)
(* getFieldValueByName applied to one source aggregate and one name.       *)
(***************************************************************************)
FieldS == Val("string", 1)
FieldI == Val("int", 1)
GetterS == Val("string", 2)

StructObjs ==
    {SourceObj("struct", fs, NoMembers, ms) :
        fs \in [SrcNames -> {Absent, Member(FieldS), Member(FieldI)}],
        ms \in [SrcNames -> {NoMethod, Getter(GetterS), Setter("string"), Procedure}]}
MapObjs ==
    {SourceObj("map", NoMembers, es, ms) :
        es \in [SrcNames -> {Absent, Member(FieldS), Member(Nil)}],
        ms \in [SrcNames -> {NoMethod, Getter(GetterS), Setter("string"), Procedure}]}
SourceObjs == StructObjs \cup MapObjs \cup {NilObj}

InitExtract ==
    /\ lcall = NoLibCall
    /\ alias = NoAlias
    /\ client = NoClient
    /\ th = NoThreads
    /\ hist = NoHistory
    /\ slcall = NoSliceCall
    /\ tcall = NoTransformCall
    /\ ChainIdle
    /\ acall = NoAssign /\ sm = NoStructMapper /\ scall = NoFrom
    /\ \E obj \in SourceObjs, name \in SrcNames :
         gcall = [NoGet EXCEPT !.op = "args", !.obj = obj, !.name = name]

GetFieldValueCall ==
    /\ gcall.op = "args"
    /\ LET g == getFieldValueByName(gcall.obj, gcall.name) IN
       gcall' = [gcall EXCEPT !.op = "done", !.val = g.val, !.err = g.err,
                              !.panic = g.panic, !.tier = g.tier]
    /\ UNCHANGED <<lcall, alias, client, th, hist, slcall, tcall, cm, fm, call, bld, acall, sm, scall>>

NextExtract == GetFieldValueCall

SpecExtract == InitExtract /\ [][NextExtract]_vars

(***************************************************************************)
(* assignValue applied to one destination aggregate, one name, one value.  *)
(***************************************************************************)
DestTypes ==
    {DestType(k, fs, ms) :
        k \in {"struct"},
        fs \in [DstNames -> {NoDstField, DstField("string"), DstField("any")}],
        ms \in [DstNames -> {NoMethod, Setter("string"), Setter("any"), Getter(GetterS)}]}
        \cup {DestType("map", [n \in DstNames |-> NoDstField], [n \in DstNames |-> NoMethod])}

InitAssign ==
    /\ lcall = NoLibCall
    /\ alias = NoAlias
    /\ client = NoClient
    /\ th = NoThreads
    /\ hist = NoHistory
    /\ slcall = NoSliceCall
    /\ tcall = NoTransformCall
    /\ ChainIdle
    /\ gcall = NoGet /\ sm = NoStructMapper /\ scall = NoFrom
    /\ \E T \in DestTypes, to \in DstNames, value \in AnyValues :
         acall = [NoAssign EXCEPT !.op = "args", !.T = T, !.before = ZeroDest(T),
                                  !.to = to, !.value = value, !.dest = ZeroDest(T)]

AssignValueCall ==
    /\ acall.op = "args"
    /\ LET a == assignValue(acall.T, acall.before, acall.to, acall.value) IN
       acall' = [acall EXCEPT !.op = "done", !.dest = a.dest, !.err = a.err,
                              !.panic = a.panic, !.tier = a.tier]
    /\ UNCHANGED <<lcall, alias, client, th, hist, slcall, tcall, cm, fm, call, bld, gcall, sm, scall>>

NextAssign == AssignValueCall

SpecAssign == InitAssign /\ [][NextAssign]_vars

(***************************************************************************)
(* A StructMapper constructed over a list of bindings and applied to       *)
(* source aggregates.                                                      *)
(***************************************************************************)
\* From[TS, TD](NewField[TS](from)).To(NewField[TD](to)), then ConvertWith(conv)
\* or SkipConversion() (conv = NoStep), then SkipValidation(), then Build().
Binding(TS, TD, from, to, conv) ==
    Build(Builder("BuildStep", TS, TD, NewField(TS, from), NewField(TD, to), NoStep, conv))

BindingLib ==
    UNION {{Binding("string", "string", from, to, NoStep),
            Binding("string", "int", from, to, StringToIntMapper),
            Binding("string", "string", from, to, AlwaysFailingMapper)} :
                from \in {"A", "B"}, to \in {"X", "Y"}}
        \cup {Binding("any", "string", "A", "X", NoStep),
              Binding("int", "string", "A", "X", NoStep)}

\* All binding lists of at most n bindings.
RECURSIVE BindingSeqs(_)
BindingSeqs(n) ==
    IF n = 0 THEN {<<>>}
    ELSE LET shorter == BindingSeqs(n - 1) IN
         shorter \cup {Append(s, f) : s \in {t \in shorter : Len(t) = n - 1}, f \in BindingLib}

Fields1(a, b) == [n \in SrcNames |-> IF n = "A" THEN a ELSE IF n = "B" THEN b ELSE Absent]

SrcLib ==
    {SourceObj("struct", Fields1(a, b), NoMembers, NoMethods) :
        a \in {Absent, Member(FieldS), Member(FieldI)}, b \in {Absent, Member(FieldS)}}
    \cup {SourceObj("map", NoMembers, Fields1(a, Member(FieldS)), NoMethods) :
        a \in {Absent, Member(FieldS)}}
    \cup {SourceObj("struct", NoMembers, NoMembers,
                    [n \in SrcNames |-> IF n = "A" THEN Getter(GetterS) ELSE NoMethod])}

DstFields(x, y) == [n \in DstNames |-> IF n = "X" THEN x ELSE IF n = "Y" THEN y ELSE NoDstField]
DstMethods(x) == [n \in DstNames |-> IF n = "X" THEN x ELSE NoMethod]

DestLib ==
    {DestType("struct", DstFields(DstField("string"), DstField("string")), DstMethods(NoMethod)),
     DestType("struct", DstFields(DstField("int"), NoDstField), DstMethods(NoMethod)),
     DestType("struct", DstFields(NoDstField, DstField("string")), DstMethods(Setter("string")))}

InitStruct ==
    /\ lcall = NoLibCall
    /\ alias = NoAlias
    /\ client = NoClient
    /\ th = NoThreads
    /\ hist = NoHistory
    /\ slcall = NoSliceCall
    /\ tcall = NoTransformCall
    /\ ChainIdle
    /\ StructIdle

NewStructMapperCall ==
    /\ sm = NoStructMapper
    /\ \E T \in DestLib, mappings \in BindingSeqs(MaxBindings) :
         sm' = NewStructMapper(T, mappings)
    /\ UNCHANGED <<lcall, alias, client, th, hist, slcall, tcall, cm, fm, call, bld, gcall, acall, scall>>

StructFromCall ==
    /\ sm.state = "built"
    /\ \E input \in SrcLib :
         LET r == StructMapperFrom(sm, input) IN
         scall' = [op |-> "done", input |-> input, dest |-> r.dest, err |-> r.err,
                   panic |-> r.panic, log |-> r.log]
    /\ UNCHANGED <<lcall, alias, client, th, hist, slcall, tcall, cm, fm, call, bld, gcall, acall, sm>>

NextStruct ==
    \/ NewStructMapperCall
    \/ StructFromCall

SpecStruct == InitStruct /\ [][NextStruct]_vars


(***************************************************************************)
(* TransformMapper.From as a function of the registry, the metadata and    *)
(* the source.                                                             *)
(***************************************************************************)
InitTransform ==
    /\ lcall = NoLibCall
    /\ alias = NoAlias
    /\ client = NoClient
    /\ th = NoThreads
    /\ hist = NoHistory
    /\ slcall = NoSliceCall
    /\ ChainIdle
    /\ StructIdle
    /\ \E mapping \in Mappings, meta \in Metas, source \in TestSources :
         tcall = [NoTransformCall EXCEPT
                     !.op = "args",
                     !.m = NewTransformMapper(NewMapResolver(mapping), meta),
                     !.source = source]

TransformFromCall ==
    /\ tcall.op = "args"
    /\ LET r == TransformMapperFrom(tcall.m, tcall.source) IN
       tcall' = [tcall EXCEPT !.op = "done", !.val = r.val, !.err = r.err,
                              !.invoked = r.invoked]
    /\ UNCHANGED <<lcall, alias, client, th, hist, slcall, cm, fm, call, bld, gcall, acall, sm, scall>>

NextTransform == TransformFromCall

SpecTransform == InitTransform /\ [][NextTransform]_vars


(***************************************************************************)
(* SliceMapper: one mapper is constructed over an element step and then    *)
(* applied to a value and used as the only step of a chain.                *)
(***************************************************************************)
\* All sequences of at most n members of S.
RECURSIVE SeqsUpTo(_, _)
SeqsUpTo(S, n) ==
    IF n = 0 THEN {<<>>}
    ELSE LET shorter == SeqsUpTo(S, n - 1) IN
         shorter \cup {Append(q, x) : q \in {t \in shorter : Len(t) = n - 1}, x \in S}

ValuesOf(t) == {x \in Values : x.typ = t}

\* What a caller can hand to From as `source any`.
SliceSources ==
    {SliceVal("[]string", e) : e \in SeqsUpTo(ValuesOf("string"), MaxLen)}
        \cup {SliceVal("[]int", e) : e \in SeqsUpTo(ValuesOf("int"), MaxLen)}
        \cup {SliceVal("Names", e) : e \in SeqsUpTo(ValuesOf("string"), MaxLen)}
        \cup {SliceVal("[]any", e) : e \in SeqsUpTo(AnyValues, MaxLen)}
        \cup AnyValues

SliceMappers ==
    {NewSliceMapper(TSource, TDest, T, D, em) :
        TSource \in UNION {SlicesOf(T1) : T1 \in TypeParams},
        TDest \in UNION {SlicesOf(D1) : D1 \in TypeParams},
        T \in TypeParams, D \in TypeParams, em \in StepLib}

InitSlice ==
    /\ lcall = NoLibCall
    /\ alias = NoAlias
    /\ client = NoClient
    /\ th = NoThreads
    /\ hist = NoHistory
    /\ ChainIdle
    /\ StructIdle
    /\ tcall = NoTransformCall
    /\ \E stm \in SliceMappers, source \in SliceSources :
         /\ stm.TSource \in SlicesOf(stm.T)
         /\ stm.TDest \in SlicesOf(stm.D)
         /\ slcall = [NoSliceCall EXCEPT !.op = "args", !.stm = stm, !.source = source]

SliceFromCall ==
    /\ slcall.op \in {"args", "chained"}
    /\ LET r == SliceMapperFrom(slcall.stm, slcall.source) IN
       slcall' = [slcall EXCEPT !.op = IF slcall.op = "args" THEN "called" ELSE "both",
                                !.val = r.val, !.err = r.err, !.panic = r.panic, !.log = r.log]
    /\ UNCHANGED <<lcall, alias, client, th, hist, cm, fm, call, bld, gcall, acall, sm, scall, tcall>>

\* NewChainedMapper[TSource, TDest](sliceMapper)
SliceChainCall ==
    /\ slcall.op \in {"args", "called"}
    /\ slcall' = [slcall EXCEPT
                     !.op = IF slcall.op = "args" THEN "chained" ELSE "both",
                     !.chain = NewChainedMapper(slcall.stm.TSource, slcall.stm.TDest,
                                                <<SliceStep(slcall.stm)>>)]
    /\ UNCHANGED <<lcall, alias, client, th, hist, cm, fm, call, bld, gcall, acall, sm, scall, tcall>>

NextSlice ==
    \/ SliceFromCall
    \/ SliceChainCall

SpecSlice == InitSlice /\ [][NextSlice]_vars


(***************************************************************************)
(* Repeated application: one StructMapper is constructed and From is       *)
(* called on it several times, the history of the calls being kept.        *)
(***************************************************************************)
RepeatBindings ==
    {Binding("string", "string", "A", "X", NoStep),
     Binding("string", "string", "B", "Y", NoStep),
     Binding("string", "int", "A", "X", StringToIntMapper),
     Binding("string", "string", "B", "Y", AlwaysFailingMapper)}

RECURSIVE RepeatBindingSeqs(_)
RepeatBindingSeqs(n) ==
    IF n = 0 THEN {<<>>}
    ELSE LET shorter == RepeatBindingSeqs(n - 1) IN
         shorter \cup {Append(q, f) : q \in {t \in shorter : Len(t) = n - 1},
                                      f \in RepeatBindings}

RepeatSources ==
    {SourceObj("struct", Fields1(Member(FieldS), Member(FieldS)), NoMembers, NoMethods),
     SourceObj("struct", Fields1(Member(FieldS), Absent), NoMembers, NoMethods),
     SourceObj("struct", Fields1(Member(FieldI), Member(FieldS)), NoMembers, NoMethods),
     SourceObj("map", NoMembers, Fields1(Absent, Member(FieldS)), NoMethods)}

\* One call as the caller sees it, with the mapper as it was when called.
Call(b, input, r) ==
    [sm |-> b, input |-> input, dest |-> r.dest, err |-> r.err, panic |-> r.panic]

InitRepeat ==
    /\ lcall = NoLibCall
    /\ alias = NoAlias
    /\ client = NoClient
    /\ th = NoThreads
    /\ ChainIdle
    /\ StructIdle
    /\ tcall = NoTransformCall
    /\ slcall = NoSliceCall
    /\ hist = NoHistory

RepeatNewStructMapper ==
    /\ sm = NoStructMapper
    /\ \E T \in DestLib, mappings \in RepeatBindingSeqs(MaxBindings) :
         sm' = NewStructMapper(T, mappings)
    /\ UNCHANGED <<lcall, alias, client, th, cm, fm, call, bld, gcall, acall, scall, tcall, slcall, hist>>

RepeatFrom ==
    /\ sm.state = "built"
    /\ Len(hist) < MaxCalls
    /\ \E input \in RepeatSources :
         LET r == StructMapperFrom(sm, input) IN
         /\ scall' = [op |-> "done", input |-> input, dest |-> r.dest, err |-> r.err,
                      panic |-> r.panic, log |-> r.log]
         /\ hist' = Append(hist, Call(sm, input, r))
    /\ UNCHANGED <<lcall, alias, client, th, cm, fm, call, bld, gcall, acall, sm, tcall, slcall>>

NextRepeat ==
    \/ RepeatNewStructMapper
    \/ RepeatFrom

SpecRepeat == InitRepeat /\ [][NextRepeat]_vars


(***************************************************************************)
(* Concurrency: one StructMapper is constructed and then every caller      *)
(* makes one call of From on it, the phases of the calls interleaving.     *)
(***************************************************************************)
ConcBindings ==
    {Binding("string", "string", "A", "X", NoStep),
     Binding("string", "int", "A", "X", StringToIntMapper),
     Binding("string", "string", "B", "Y", IdentityMapperString)}

RECURSIVE ConcBindingSeqs(_)
ConcBindingSeqs(n) ==
    IF n = 0 THEN {<<>>}
    ELSE LET shorter == ConcBindingSeqs(n - 1) IN
         shorter \cup {Append(q, f) : q \in {t \in shorter : Len(t) = n - 1},
                                      f \in ConcBindings}

ConcDests ==
    {DestType("struct", DstFields(DstField("string"), DstField("string")), DstMethods(NoMethod)),
     DestType("struct", DstFields(DstField("int"), DstField("string")), DstMethods(NoMethod))}

ConcSources ==
    {SourceObj("struct", Fields1(Member(FieldS), Member(FieldS)), NoMembers, NoMethods),
     SourceObj("struct", Fields1(Member(FieldS), Absent), NoMembers, NoMethods),
     SourceObj("map", NoMembers, Fields1(Member(Val("string", 0)), Member(FieldS)), NoMethods)}

InitConc ==
    /\ lcall = NoLibCall
    /\ alias = NoAlias
    /\ client = NoClient
    /\ ChainIdle
    /\ StructIdle
    /\ tcall = NoTransformCall
    /\ slcall = NoSliceCall
    /\ hist = NoHistory
    /\ th = NoThreads

ConcNewStructMapper ==
    /\ sm = NoStructMapper
    /\ \E T \in ConcDests, mappings \in ConcBindingSeqs(MaxBindings) :
         sm' = NewStructMapper(T, mappings)
    /\ UNCHANGED <<lcall, alias, client, cm, fm, call, bld, gcall, acall, scall, tcall, slcall, hist, th>>

\* Caller c enters b.From(input).
ConcBegin(c) ==
    /\ sm.state = "built"
    /\ th[c].pc = "idle"
    /\ \E input \in ConcSources :
         LET meets == \E d \in Callers \ {c} : InFlight(th[d]) IN
         th' = [d \in Callers |->
                   IF d = c THEN ThreadBegin(sm, input, meets)
                   ELSE IF InFlight(th[d]) THEN [th[d] EXCEPT !.overlapped = TRUE]
                   ELSE th[d]]
    /\ UNCHANGED <<lcall, alias, client, cm, fm, call, bld, gcall, acall, sm, scall, tcall, slcall, hist>>

ConcExtract(c) ==
    /\ th[c].pc = "extract"
    /\ th' = [th EXCEPT ![c] = ThreadExtract(sm, th[c])]
    /\ UNCHANGED <<lcall, alias, client, cm, fm, call, bld, gcall, acall, sm, scall, tcall, slcall, hist>>

ConcCheck(c) ==
    /\ th[c].pc = "check"
    /\ th' = [th EXCEPT ![c] = ThreadCheck(sm, th[c])]
    /\ UNCHANGED <<lcall, alias, client, cm, fm, call, bld, gcall, acall, sm, scall, tcall, slcall, hist>>

ConcStep(c) ==
    /\ th[c].pc = "step"
    /\ th' = [th EXCEPT ![c] = ThreadStep(sm, th[c])]
    /\ UNCHANGED <<lcall, alias, client, cm, fm, call, bld, gcall, acall, sm, scall, tcall, slcall, hist>>

\* assignValue(&output, toName, value): the write goes to the caller's output.
ConcAssign(c) ==
    /\ th[c].pc = "assign"
    /\ LET o == OutputOwner(c)
           a == assignValue(sm.TD, th[o].dest, sm.fieldMappings[th[c].i].to.name, th[c].x)
           written == [th EXCEPT ![o].dest = a.dest]
       IN  th' = [written EXCEPT ![c] = ThreadAssigned(sm, written[c], a)]
    /\ UNCHANGED <<lcall, alias, client, cm, fm, call, bld, gcall, acall, sm, scall, tcall, slcall, hist>>

NextConc ==
    \/ ConcNewStructMapper
    \/ \E c \in Callers : ConcBegin(c)
    \/ \E c \in Callers : ConcExtract(c)
    \/ \E c \in Callers : ConcCheck(c)
    \/ \E c \in Callers : ConcStep(c)
    \/ \E c \in Callers : ConcAssign(c)

SpecConc == InitConc /\ [][NextConc]_vars


(***************************************************************************)
(* The builder and its client: the client calls From, keeps every stage    *)
(* value it is given and calls any method a held value exposes.            *)
(***************************************************************************)
Converters == {StringToIntMapper, IdentityMapperString}
Validators == {LevelValidator}

InitBuilder ==
    /\ lcall = NoLibCall
    /\ alias = NoAlias
    /\ ChainIdle
    /\ StructIdle
    /\ tcall = NoTransformCall
    /\ slcall = NoSliceCall
    /\ hist = NoHistory
    /\ th = NoThreads
    /\ client = NoClient

ClientFrom ==
    /\ bld = NoBuilder
    /\ \E TD \in ConcreteTypes :
         bld' = Builder("FromStep", "string", TD, NewField("string", "src"), NoField, NoStep, NoStep)
    /\ client' = Called(client, "From", NoStep)
    /\ UNCHANGED <<lcall, alias, cm, fm, call, gcall, acall, sm, scall, tcall, slcall, hist, th>>

ClientTo ==
    /\ Exposed(client.held, "To")
    /\ Len(client.ops) < MaxOps
    /\ bld' = [bld EXCEPT !.stage = "ConvertStep", !.to = NewField(bld.TD, "dst")]
    /\ client' = Called(client, "To", NoStep)
    /\ UNCHANGED <<lcall, alias, cm, fm, call, gcall, acall, sm, scall, tcall, slcall, hist, th>>

ClientConvertWith ==
    /\ Exposed(client.held, "ConvertWith")
    /\ Len(client.ops) < MaxOps
    /\ \E m \in Converters :
         /\ bld' = [bld EXCEPT !.stage = "ValidateStep", !.modifyType = m]
         /\ client' = Called(client, "ConvertWith", m)
    /\ UNCHANGED <<lcall, alias, cm, fm, call, gcall, acall, sm, scall, tcall, slcall, hist, th>>

ClientSkipConversion ==
    /\ Exposed(client.held, "SkipConversion")
    /\ Len(client.ops) < MaxOps
    /\ bld' = [SkipConversion(bld) EXCEPT !.stage = "ValidateStep"]
    /\ client' = Called(client, "SkipConversion", NoStep)
    /\ UNCHANGED <<lcall, alias, cm, fm, call, gcall, acall, sm, scall, tcall, slcall, hist, th>>

ClientValidateWith ==
    /\ Exposed(client.held, "ValidateWith")
    /\ Len(client.ops) < MaxOps
    /\ \E m \in Validators :
         /\ bld' = [bld EXCEPT !.stage = "BuildStep", !.validate = m]
         /\ client' = Called(client, "ValidateWith", m)
    /\ UNCHANGED <<lcall, alias, cm, fm, call, gcall, acall, sm, scall, tcall, slcall, hist, th>>

ClientSkipValidation ==
    /\ Exposed(client.held, "SkipValidation")
    /\ Len(client.ops) < MaxOps
    /\ bld' = [SkipValidation(bld) EXCEPT !.stage = "BuildStep"]
    /\ client' = Called(client, "SkipValidation", NoStep)
    /\ UNCHANGED <<lcall, alias, cm, fm, call, gcall, acall, sm, scall, tcall, slcall, hist, th>>

ClientBuild ==
    /\ Exposed(client.held, "Build")
    /\ Len(client.ops) < MaxOps
    /\ cm' = BuildChain(bld)
    /\ fm' = IF cm'.state = "built" THEN Build(bld) ELSE NoFieldMapping
    /\ client' = Client(client.held, Append(client.ops, Op("Build", NoStep)))
    /\ UNCHANGED <<lcall, alias, bld, call, gcall, acall, sm, scall, tcall, slcall, hist, th>>

NextBuilder ==
    \/ ClientFrom
    \/ ClientTo
    \/ ClientConvertWith
    \/ ClientSkipConversion
    \/ ClientValidateWith
    \/ ClientSkipValidation
    \/ ClientBuild

SpecBuilder == InitBuilder /\ [][NextBuilder]_vars


(***************************************************************************)
(* Storage shared with the caller.  NewChainedMapper, NewStructMapper and  *)
(* NewMapResolver store the slice or map they are given, without copying   *)
(* it.  A caller that spreads a slice into NewChainedMapper (steps...), or *)
(* passes its slice to NewStructMapper or its map to NewMapResolver, and   *)
(* keeps it, shares its elements with the constructed object: assigning to *)
(* an element of the slice, or adding or deleting a key of the map, is     *)
(* seen by the object.  Arguments listed one by one are put into a new     *)
(* slice that the caller cannot reach.                                     *)
(***************************************************************************)
Constructed(c, b, m) == [cm |-> c, sm |-> b, m |-> m]
Alias(kept, orig, written) == [kept |-> kept, orig |-> orig, written |-> written]

\* steps[i] = m
SetElement(q, i, x) == [q EXCEPT ![i] = x]
\* mapping[k] = fn
PutKey(mapping, k, fn) == [x \in DOMAIN mapping \cup {k} |-> IF x = k THEN fn ELSE mapping[x]]
\* delete(mapping, k)
DeleteKey(mapping, k) == [x \in DOMAIN mapping \ {k} |-> mapping[x]]

\* What the caller writes into the slice or map it kept.
AliasSteps == {IdentityMapperString, IntDoubler}
AliasKeys == {"double", "unknown"}
AliasTransforms == {"double", "failing"}
AliasMappings == UNION {[D -> AliasTransforms] : D \in SUBSET AliasKeys}
AliasSources == {TestSource(0, op) : op \in AliasKeys} \cup {TestSource(1, "double")}

NothingConstructed == cm = NoChain /\ sm = NoStructMapper /\ tcall = NoTransformCall

InitAlias ==
    /\ lcall = NoLibCall
    /\ ChainIdle
    /\ StructIdle
    /\ tcall = NoTransformCall
    /\ slcall = NoSliceCall
    /\ hist = NoHistory
    /\ th = NoThreads
    /\ client = NoClient
    /\ alias = NoAlias

\* NewChainedMapper[TS, TD](a, b) or, with spread, NewChainedMapper[TS, TD](steps...)
AliasNewChainedMapper ==
    /\ NothingConstructed
    /\ \E TS \in TypeParams, TD \in TypeParams, mappers \in StepSeqs(MaxSteps),
          spread \in BOOLEAN :
         /\ cm' = NewChainedMapper(TS, TD, mappers)
         /\ cm'.state = "built"
         /\ alias' = Alias(IF spread THEN {"steps"} ELSE {},
                           Constructed(cm', sm, tcall.m), FALSE)
    /\ UNCHANGED <<lcall, fm, call, bld, gcall, acall, sm, scall, tcall, slcall, hist, th, client>>

\* NewStructMapper[TS, TD](mappings)
AliasNewStructMapper ==
    /\ NothingConstructed
    /\ \E T \in ConcDests, mappings \in ConcBindingSeqs(MaxBindings) :
         /\ sm' = NewStructMapper(T, mappings)
         /\ alias' = Alias({"bindings"}, Constructed(cm, sm', tcall.m), FALSE)
    /\ UNCHANGED <<lcall, cm, fm, call, bld, gcall, acall, scall, tcall, slcall, hist, th, client>>

\* NewTransformMapper(NewMapResolver(mapping), meta, keyFunc)
AliasNewMapResolver ==
    /\ NothingConstructed
    /\ \E mapping \in AliasMappings :
         /\ tcall' = [NoTransformCall EXCEPT
                         !.op = "new", !.m = NewTransformMapper(NewMapResolver(mapping), 0)]
         /\ alias' = Alias({"registry"}, Constructed(cm, sm, tcall'.m), FALSE)
    /\ UNCHANGED <<lcall, cm, fm, call, bld, gcall, acall, sm, scall, slcall, hist, th, client>>

\* The caller assigns to an element of the slice it spread into NewChainedMapper.
CallerWritesStep ==
    /\ "steps" \in alias.kept
    /\ \E i \in 1..Len(cm.mappers), m \in AliasSteps :
         cm' = [cm EXCEPT !.mappers = SetElement(cm.mappers, i, m)]
    /\ alias' = [alias EXCEPT !.written = TRUE]
    /\ UNCHANGED <<lcall, fm, call, bld, gcall, acall, sm, scall, tcall, slcall, hist, th, client>>

\* The caller assigns to an element of the slice it passed to NewStructMapper.
CallerWritesBinding ==
    /\ "bindings" \in alias.kept
    /\ \E i \in 1..Len(sm.fieldMappings), f \in ConcBindings :
         sm' = [sm EXCEPT !.fieldMappings = SetElement(sm.fieldMappings, i, f)]
    /\ alias' = [alias EXCEPT !.written = TRUE]
    /\ UNCHANGED <<lcall, cm, fm, call, bld, gcall, acall, scall, tcall, slcall, hist, th, client>>

\* The caller adds or replaces a key of the map it passed to NewMapResolver.
CallerPutsKey ==
    /\ "registry" \in alias.kept
    /\ \E k \in AliasKeys, fn \in AliasTransforms :
         tcall' = [tcall EXCEPT !.m.resolver.mapping = PutKey(tcall.m.resolver.mapping, k, fn)]
    /\ alias' = [alias EXCEPT !.written = TRUE]
    /\ UNCHANGED <<lcall, cm, fm, call, bld, gcall, acall, sm, scall, slcall, hist, th, client>>

\* The caller deletes a key of the map it passed to NewMapResolver.
CallerDeletesKey ==
    /\ "registry" \in alias.kept
    /\ \E k \in DOMAIN tcall.m.resolver.mapping :
         tcall' = [tcall EXCEPT !.m.resolver.mapping = DeleteKey(tcall.m.resolver.mapping, k)]
    /\ alias' = [alias EXCEPT !.written = TRUE]
    /\ UNCHANGED <<lcall, cm, fm, call, bld, gcall, acall, sm, scall, slcall, hist, th, client>>

\* c.Map(input)
AliasMap ==
    /\ alias # NoAlias
    /\ ChainMapCall
    /\ UNCHANGED alias

\* b.From(input)
AliasFrom ==
    /\ sm.state = "built"
    /\ \E input \in ConcSources :
         LET r == StructMapperFrom(sm, input) IN
         scall' = [op |-> "done", input |-> input, dest |-> r.dest, err |-> r.err,
                   panic |-> r.panic, log |-> r.log]
    /\ UNCHANGED <<lcall, cm, fm, call, bld, gcall, acall, sm, tcall, slcall, hist, th, client, alias>>

\* m.From(source)
AliasDispatch ==
    /\ tcall.op # "none"
    /\ \E source \in AliasSources :
         LET r == TransformMapperFrom(tcall.m, source) IN
         tcall' = [tcall EXCEPT !.op = "done", !.source = source, !.val = r.val,
                                !.err = r.err, !.invoked = r.invoked]
    /\ UNCHANGED <<lcall, cm, fm, call, bld, gcall, acall, sm, scall, slcall, hist, th, client, alias>>

NextAlias ==
    \/ AliasNewChainedMapper
    \/ AliasNewStructMapper
    \/ AliasNewMapResolver
    \/ CallerWritesStep
    \/ CallerWritesBinding
    \/ CallerPutsKey
    \/ CallerDeletesKey
    \/ AliasMap
    \/ AliasFrom
    \/ AliasDispatch

SpecAlias == InitAlias /\ [][NextAlias]_vars


(***************************************************************************)
(* The library's own steps and GetField, each called once on arguments     *)
(* drawn from what a caller can pass.                                      *)
(***************************************************************************)
\* `source any` of a direct call: scalars, nil and slices.
LibSources == SliceSources

LibSliceMappers ==
    {NewSliceMapper(SliceType(T), SliceType(D), T, D, em) :
        T \in ConcreteTypes, D \in ConcreteTypes, em \in {StringToIntMapper, IdentityMapperString}}

\* The keys of the records, after the test-suite's record, and a key no record has.
RecordKeys == {"country_code", "percentage"}
FieldNames == RecordKeys \cup {"missing"}
Records == UNION {[D -> AnyValues] : D \in SUBSET RecordKeys}

InitLib ==
    /\ alias = NoAlias
    /\ client = NoClient
    /\ th = NoThreads
    /\ hist = NoHistory
    /\ ChainIdle
    /\ StructIdle
    /\ tcall = NoTransformCall
    /\ slcall = NoSliceCall
    /\ \/ \E T \in TypeParams, source \in LibSources :
            lcall = [NoLibCall EXCEPT !.op = "args", !.fn = "IdentityMapper.From",
                                      !.T = T, !.source = source]
       \/ \E stm \in LibSliceMappers, source \in LibSources :
            lcall = [NoLibCall EXCEPT !.op = "args", !.fn = "SliceMapper.From",
                                      !.T = stm.T, !.stm = stm, !.source = source]
       \/ \E T \in TypeParams, record \in Records, name \in FieldNames :
            lcall = [NoLibCall EXCEPT !.op = "args", !.fn = "GetField", !.T = T,
                                      !.record = record, !.after = record, !.name = name]

IdentityFromCall ==
    /\ lcall.op = "args"
    /\ lcall.fn = "IdentityMapper.From"
    /\ LET r == IdentityMapperFrom(lcall.T, lcall.source) IN
       lcall' = [lcall EXCEPT !.op = "done", !.val = r.val, !.err = r.err, !.panic = r.panic]
    /\ UNCHANGED <<alias, client, th, hist, cm, fm, call, bld, gcall, acall, sm, scall, tcall, slcall>>

LibSliceFromCall ==
    /\ lcall.op = "args"
    /\ lcall.fn = "SliceMapper.From"
    /\ LET r == SliceMapperFrom(lcall.stm, lcall.source) IN
       lcall' = [lcall EXCEPT !.op = "done", !.val = r.val, !.err = r.err, !.panic = r.panic]
    /\ UNCHANGED <<alias, client, th, hist, cm, fm, call, bld, gcall, acall, sm, scall, tcall, slcall>>

GetFieldCall ==
    /\ lcall.op = "args"
    /\ lcall.fn = "GetField"
    /\ LET r == GetField(lcall.T, lcall.record, lcall.name) IN
       lcall' = [lcall EXCEPT !.op = "done", !.val = r.val, !.verr = r.verr,
                              !.after = r.record]
    /\ UNCHANGED <<alias, client, th, hist, cm, fm, call, bld, gcall, acall, sm, scall, tcall, slcall>>

NextLib ==
    \/ IdentityFromCall
    \/ LibSliceFromCall
    \/ GetFieldCall

SpecLib == InitLib /\ [][NextLib]_vars

(***************************************************************************)
(* Chains of up to MaxChain steps, over steps that keep and steps that     *)
(* break their declared output type: construction, then Map.               *)
(***************************************************************************)
ChainSteps == {StringToIntMapper, IntDoubler, MockStringToStringMapper, MockReturnsNil}

InitChain ==
    /\ lcall = NoLibCall
    /\ alias = NoAlias
    /\ client = NoClient
    /\ th = NoThreads
    /\ hist = NoHistory
    /\ slcall = NoSliceCall
    /\ tcall = NoTransformCall
    /\ ChainIdle
    /\ StructIdle

\* NewChainedMapper[TS, TD](mappers...)
LongChainCall ==
    /\ cm = NoChain
    /\ \E TS \in TypeParams, TD \in TypeParams, mappers \in SeqsUpTo(ChainSteps, MaxChain) :
         cm' = NewChainedMapper(TS, TD, mappers)
    /\ UNCHANGED <<lcall, alias, client, th, hist, slcall, tcall, fm, call, bld, gcall, acall, sm, scall>>

NextChain ==
    \/ LongChainCall
    \/ ChainMapCall

SpecChain == InitChain /\ [][NextChain]_vars

(***************************************************************************)
(* Properties of the chain and of the field mapping.                       *)
(***************************************************************************)
\* The three conditions on a non-empty step list, stated declaratively.
Aligned(TS, TD, mappers) ==
    /\ mappers[1].src = TypeOfZero(TS)
    /\ mappers[Len(mappers)].tgt = TypeOfZero(TD)
    /\ \A i \in 1..(Len(mappers) - 1) : mappers[i].tgt = mappers[i + 1].src

\* The value after the first n steps, each applied to the output of the one before.
RECURSIVE Compose(_, _, _)
Compose(mappers, n, x) ==
    IF n = 0 THEN x ELSE StepFrom(mappers[n], Compose(mappers, n - 1, x)).val

\* What step i returns when every step before it has handed on its output.
StepResult(mappers, i, x) == StepFrom(mappers[i], Compose(mappers, i - 1, x))

StepOk(mappers, i, x) ==
    StepResult(mappers, i, x).err = NoErr /\ StepResult(mappers, i, x).panic = ""

AllStepsOk(mappers, x) == \A i \in 1..Len(mappers) : StepOk(mappers, i, x)

\* Step k is the first to return an error (and none before it panics).
FirstError(mappers, k, x) ==
    /\ \A i \in 1..(k - 1) : StepOk(mappers, i, x)
    /\ StepResult(mappers, k, x).panic = ""
    /\ StepResult(mappers, k, x).err # NoErr

\* Steps 1..n called once each, in order, each on the output of the one before.
CallsInOrder(mappers, n, x) == [i \in 1..n |-> Invoke(i, Compose(mappers, i - 1, x))]

MapCalled == call.op = "ChainedMapper.Map"
FieldMapCalled == call.op = "FieldMapping.Map"

\* C1: NewChainedMapper with at least one step returns a chain exactly when the
\* first step's source type is TSource's type, the last step's target type is
\* TDest's type and every adjacent pair is aligned, and panics otherwise;
\* Build() hands it the attached steps and panics with it.
C1_Adjacency ==
    /\ (cm.state # "none" /\ Len(cm.mappers) >= 1) =>
          /\ cm.state = "built" <=> Aligned(cm.TS, cm.TD, cm.mappers)
          /\ cm.state = "panicked" <=> ~Aligned(cm.TS, cm.TD, cm.mappers)
    /\ (bld.stage = "BuildStep" /\ cm.state # "none") =>
          /\ cm.mappers = BuildMappers(bld)
          /\ cm.TS = bld.TS /\ cm.TD = bld.TD
          /\ cm.state = "panicked" <=> fm = NoFieldMapping

\* C1 witness: a two-step list with both endpoints right and the pair misaligned
\* has made the constructor panic.
C1_Witness ==
    /\ cm.state = "panicked"
    /\ Len(cm.mappers) = 2
    /\ cm.mappers[1].src = TypeOfZero(cm.TS)
    /\ cm.mappers[2].tgt = TypeOfZero(cm.TD)
    /\ cm.mappers[1].tgt # cm.mappers[2].src

\* C2 as stated: whenever no step returns an error, Map returns the composition
\* of the steps, each called once, in order, on the output of the one before.
C2_Original ==
    (MapCalled /\ AllStepsOk(cm.mappers, call.input)) =>
        /\ call.panic = ""
        /\ call.err = NoErr
        /\ call.val = Compose(cm.mappers, Len(cm.mappers), call.input)
        /\ call.log = CallsInOrder(cm.mappers, Len(cm.mappers), call.input)

\* C2 amended: whenever no step returns an error or panics, Map calls each step
\* once, in list order, on the output of the one before, and returns the last
\* output (the input, for no steps) when that value is of type TDest, and the
\* zero value of TDest with a final-type-mismatch error when it is not.
C2_Composition ==
    (MapCalled /\ AllStepsOk(cm.mappers, call.input)) =>
        LET last == Compose(cm.mappers, Len(cm.mappers), call.input)
            isTDest == IF cm.TD = "any" THEN last # Nil ELSE last.typ = cm.TD
        IN  /\ call.panic = ""
            /\ call.log = CallsInOrder(cm.mappers, Len(cm.mappers), call.input)
            /\ isTDest => call.err = NoErr /\ call.val = last
            /\ ~isTDest => call.err = NewErr("final type mismatch")
                             /\ call.val = ZeroValue(cm.TD)

\* C2 witness: a two-step chain has mapped an input to a value that is not its input.
C2_Witness ==
    /\ MapCalled
    /\ Len(cm.mappers) = 2
    /\ call.err = NoErr
    /\ call.val # call.input
    /\ call.val = StepFrom(cm.mappers[2], StepFrom(cm.mappers[1], call.input).val).val

\* C3: when step k is the first to return an error, Map returns the zero value
\* of TDest and an error that wraps the step's error under the 1-based index k,
\* and has called steps 1..k and no step after k.
C3_FirstError ==
    \A k \in 1..Len(cm.mappers) :
        (MapCalled /\ FirstError(cm.mappers, k, call.input)) =>
            /\ call.panic = ""
            /\ call.val = ZeroValue(cm.TD)
            /\ call.err = Wrap(Frame("mapper chain failed at step", k, ""),
                               StepResult(cm.mappers, k, call.input).err)
            /\ call.log = CallsInOrder(cm.mappers, k, call.input)

\* C3 witness: the first step of a two-step chain has failed, and the second
\* step was not called.
C3_Witness ==
    /\ MapCalled
    /\ Len(cm.mappers) = 2
    /\ FirstError(cm.mappers, 1, call.input)
    /\ Len(call.log) = 1

\* C4 as stated: applying a chain of zero steps returns an error for every input.
C4_Original ==
    ((MapCalled \/ FieldMapCalled) /\ Len(cm.mappers) = 0) => call.err # NoErr

\* C4 amended: a chain of zero steps fails exactly on the inputs that are not of
\* type TDest (a final-type-mismatch error and the zero value), and returns every
\* input of type TDest unchanged with no error; FieldMapping.Map over it fails
\* exactly on the values that are not of both TSource and TDest.
C4_ZeroSteps ==
    LET x == call.input
        isTDest == IF cm.TD = "any" THEN x # Nil ELSE x.typ = cm.TD
        isTSource == IF cm.TS = "any" THEN x # Nil ELSE x.typ = cm.TS
    IN  /\ (MapCalled /\ Len(cm.mappers) = 0) =>
              /\ call.log = <<>>
              /\ isTDest => call.err = NoErr /\ call.val = x
              /\ ~isTDest => call.err = NewErr("final type mismatch")
                               /\ call.val = ZeroValue(cm.TD)
        /\ (FieldMapCalled /\ Len(cm.mappers) = 0) =>
              /\ call.log = <<>>
              /\ (isTSource /\ isTDest) => call.err = NoErr /\ call.val = x
              /\ ~(isTSource /\ isTDest) => call.err # NoErr /\ call.val = Nil

\* C4 witness: a chain of zero steps whose source and destination types differ
\* has failed on an input.
C4_Witness ==
    /\ MapCalled
    /\ Len(cm.mappers) = 0
    /\ cm.TS # cm.TD
    /\ call.err = NewErr("final type mismatch")

\* C10 as stated: FieldMapping.Map fails without calling its chain whenever the
\* value's runtime type differs from the source Field's declared type, and calls
\* the chain only when the two are equal.
C10_Original ==
    FieldMapCalled =>
        /\ call.input.typ # fm.from.typ => call.err # NoErr /\ ~call.chained
        /\ call.chained => call.input.typ = fm.from.typ

\* C10 amended: FieldMapping.Map fails with an invalid-source-type error, without
\* calling its chain, exactly when the value is not of the type parameter TSource:
\* for a concrete TSource when the value's runtime type differs from the source
\* Field's declared type, for the interface type any (whose Field declares the nil
\* type) only when the value is nil; every other value is handed to the chain.
C10_SourceCheck ==
    FieldMapCalled =>
        LET rejected == IF fm.from.typ = NilType THEN call.input = Nil
                        ELSE call.input.typ # fm.from.typ
        IN  /\ rejected => /\ call.err = NewErr("invalid source type")
                           /\ ~call.chained
                           /\ call.log = <<>>
                           /\ call.val = Nil
                           /\ call.target = fm.to
            /\ ~rejected => call.chained

\* C10 witness: a binding with a string source field and a chain of at least one
\* step has rejected an int.
C10_Witness ==
    /\ FieldMapCalled
    /\ fm.from.typ = "string"
    /\ call.input.typ = "int"
    /\ Len(cm.mappers) >= 1
    /\ call.err = NewErr("invalid source type")
    /\ call.log = <<>>

(***************************************************************************)
(* Properties of extraction and assignment.                                *)
(***************************************************************************)
\* What an aggregate offers under a name.
HasField(obj, name) == obj.kind = "struct" /\ obj.fields[name].present /\ Exported(name)
HasGetter(obj, name) ==
    /\ obj.kind # "nil" /\ obj.methods[name].present /\ Exported(name)
    /\ obj.methods[name].numIn = 0 /\ obj.methods[name].numOut = 1
HasKey(obj, name) == obj.kind = "map" /\ obj.entries[name].present

Extracted == gcall.op = "done" /\ gcall.obj.kind # "nil"

\* C8 as stated: the struct field first, the zero-argument method second, the
\* map key third; a source with a method and a map key of one name yields the
\* method's result.
C8_Original ==
    Extracted =>
        LET o == gcall.obj
            n == gcall.name
        IN  /\ HasField(o, n) => gcall.err = NoErr /\ gcall.val = o.fields[n].val
            /\ (~HasField(o, n) /\ HasGetter(o, n)) =>
                  gcall.err = NoErr /\ gcall.val = o.methods[n].val
            /\ (~HasField(o, n) /\ ~HasGetter(o, n) /\ HasKey(o, n)) =>
                  gcall.err = NoErr /\ gcall.val = o.entries[n].val

\* C8 amended: the exported struct field first, the map key second, the
\* zero-argument one-result method third; a source with a method and a map key
\* of one name yields the value stored under the key; with none of the three the
\* lookup fails with an error naming the field.
C8_ExtractionOrder ==
    Extracted =>
        LET o == gcall.obj
            n == gcall.name
        IN  /\ HasField(o, n) =>
                  gcall.err = NoErr /\ gcall.val = o.fields[n].val /\ gcall.tier = "field"
            /\ (~HasField(o, n) /\ HasKey(o, n)) =>
                  gcall.err = NoErr /\ gcall.val = o.entries[n].val /\ gcall.tier = "map"
            /\ (~HasField(o, n) /\ ~HasKey(o, n) /\ HasGetter(o, n)) =>
                  gcall.err = NoErr /\ gcall.val = o.methods[n].val /\ gcall.tier = "method"
            /\ (~HasField(o, n) /\ ~HasKey(o, n) /\ ~HasGetter(o, n)) =>
                  /\ gcall.err = <<Frame("field or zero-arg getter not found", 0, n)>>
                  /\ gcall.val = Nil
            /\ gcall.panic = ""

\* C8 witness: a map with a key and a zero-argument method of the same name,
\* holding different values, has been read.
C8_Witness ==
    /\ Extracted
    /\ HasKey(gcall.obj, gcall.name)
    /\ HasGetter(gcall.obj, gcall.name)
    /\ gcall.obj.entries[gcall.name].val # gcall.obj.methods[gcall.name].val
    /\ gcall.val = gcall.obj.entries[gcall.name].val

\* What a destination type offers under a name.
SettableField(T, to) == T.fields[to].present /\ Exported(to)
OneArgMethod(T, to) == T.methods[to].present /\ Exported(to) /\ T.methods[to].numIn = 1
Accepts(t, x) == t = NilType \/ x.typ = t

AssignDone == acall.op = "done" /\ acall.T.kind = "struct" /\ acall.value # Nil

\* C9 as stated: the settable field when it accepts the value; otherwise the
\* one-argument method when its parameter accepts the value; an error and an
\* unchanged destination when neither tier accepts the value.
C9_Original ==
    AssignDone =>
        LET T == acall.T
            to == acall.to
            x == acall.value
            byField == SettableField(T, to) /\ Accepts(T.fields[to].typ, x)
            byMethod == OneArgMethod(T, to) /\ Accepts(T.methods[to].param, x)
        IN  /\ byField =>
                  acall.err = NoErr /\ acall.dest = [acall.before EXCEPT !.fields[to] = x]
            /\ (~byField /\ byMethod) =>
                  acall.err = NoErr /\ acall.dest = [acall.before EXCEPT !.slots[to] = x]
            /\ (~byField /\ ~byMethod) =>
                  acall.err # NoErr /\ acall.dest = acall.before

\* C9 amended: a settable field of the name decides alone: the value is written
\* to it when its type accepts the value, and a type-mismatch error is returned
\* when it does not, whether or not a method of that name exists; only without a
\* settable field is a one-argument method of the name called, when its parameter
\* accepts the value, and an error naming the destination is returned when it
\* does not or when there is no such method.  Every error leaves the destination
\* unchanged.
C9_Assignment ==
    AssignDone =>
        LET T == acall.T
            to == acall.to
            x == acall.value
        IN  /\ acall.panic = ""
            /\ (SettableField(T, to) /\ Accepts(T.fields[to].typ, x)) =>
                  acall.err = NoErr /\ acall.dest = [acall.before EXCEPT !.fields[to] = x]
            /\ (SettableField(T, to) /\ ~Accepts(T.fields[to].typ, x)) =>
                  acall.err = NewErr("type mismatch: cannot assign")
            /\ (~SettableField(T, to) /\ OneArgMethod(T, to) /\ Accepts(T.methods[to].param, x)) =>
                  acall.err = NoErr /\ acall.dest = [acall.before EXCEPT !.slots[to] = x]
            /\ (~SettableField(T, to) /\ OneArgMethod(T, to) /\ ~Accepts(T.methods[to].param, x)) =>
                  acall.err = <<Frame("cannot assign value to method", 0, to)>>
            /\ (~SettableField(T, to) /\ ~OneArgMethod(T, to)) =>
                  acall.err = <<Frame("could not assign or call method for", 0, to)>>
            /\ acall.err # NoErr => acall.dest = acall.before

\* C9 witness: the destination has a settable field that does not accept the
\* value and a one-argument method of the same name that does; the call has
\* returned the type-mismatch error and left the destination as it was.
C9_Witness ==
    /\ AssignDone
    /\ SettableField(acall.T, acall.to)
    /\ ~Accepts(acall.T.fields[acall.to].typ, acall.value)
    /\ OneArgMethod(acall.T, acall.to)
    /\ Accepts(acall.T.methods[acall.to].param, acall.value)
    /\ acall.err = NewErr("type mismatch: cannot assign")
    /\ acall.dest = acall.before

(***************************************************************************)
(* Properties of the struct mapper.                                        *)
(***************************************************************************)
FromDone == scall.op = "done"

\* The three phases of binding i taken on their own, on the input of the call.
ExtractOf(i) == getFieldValueByName(scall.input, sm.fieldMappings[i].from.name)
MapOf(i) == FieldMappingMap(sm.fieldMappings[i], ExtractOf(i).val)
MappedValueOf(i) == MapOf(i).res.mappedValue.value
AssignOf(i) == assignValue(sm.TD, ZeroDest(sm.TD), sm.fieldMappings[i].to.name, MappedValueOf(i))

BindingFails(i) ==
    \/ ExtractOf(i).err # NoErr
    \/ MapOf(i).err # NoErr
    \/ AssignOf(i).err # NoErr

FirstFail(k) ==
    /\ k \in 1..Len(sm.fieldMappings)
    /\ BindingFails(k)
    /\ \A j \in 1..(k - 1) : ~BindingFails(j)

\* What the call shows of binding i.
Reached(i) == \E e \in 1..Len(scall.log) : scall.log[e] = Event("extract", i, 0)
Evaluated(i) == \E e \in 1..Len(scall.log) : scall.log[e].b = i
LastReached == IF scall.log = <<>> THEN 0 ELSE scall.log[Len(scall.log)].b
FailedAt(i) == scall.err # NoErr /\ LastReached = i

\* The place of the destination that assignments under the name n land in.
TargetOf(n) == IF SettableField(sm.TD, n) THEN scall.dest.fields[n] ELSE scall.dest.slots[n]
WrittenLater(i) ==
    \E j \in (i + 1)..Len(sm.fieldMappings) :
        sm.fieldMappings[j].to.name = sm.fieldMappings[i].to.name /\ Reached(j)

ZeroStep(i) == sm.fieldMappings[i].using.mappers = <<>>

\* The destination takes the value x under the destination name of binding i.
DestAccepts(i, x) ==
    assignValue(sm.TD, ZeroDest(sm.TD), sm.fieldMappings[i].to.name, x).err = NoErr

\* C5 as stated: a zero-step binding whose source value is of the binding's
\* destination type maps the value to itself without error, so From copies it
\* unchanged into the destination.
C5_Original ==
    FromDone =>
        \A i \in 1..Len(sm.fieldMappings) :
            (/\ ZeroStep(i) /\ Reached(i)
             /\ ExtractOf(i).err = NoErr
             /\ TypeAssertOk(ExtractOf(i).val, sm.fieldMappings[i].using.TD))
            => /\ MapOf(i).err = NoErr /\ MappedValueOf(i) = ExtractOf(i).val
               /\ DestAccepts(i, ExtractOf(i).val) =>
                     /\ ~FailedAt(i)
                     /\ ~WrittenLater(i) =>
                           TargetOf(sm.fieldMappings[i].to.name) = ExtractOf(i).val

\* C5 amended: a zero-step binding whose source value is of the binding's source
\* type and of its destination type maps the value to itself without error and
\* without invoking any step, so From copies it unchanged into a destination that
\* accepts the value under the binding's destination name (where it stays unless
\* a later binding writes the same name).
C5_ZeroStepCopies ==
    FromDone =>
        \A i \in 1..Len(sm.fieldMappings) :
            (/\ ZeroStep(i) /\ Reached(i)
             /\ ExtractOf(i).err = NoErr
             /\ TypeAssertOk(ExtractOf(i).val, sm.fieldMappings[i].using.TS)
             /\ TypeAssertOk(ExtractOf(i).val, sm.fieldMappings[i].using.TD))
            => /\ scall.panic = ""
               /\ MapOf(i).err = NoErr /\ MappedValueOf(i) = ExtractOf(i).val
               /\ ~(FailedAt(i) /\ scall.err[1].k = "mapping error")
               /\ \E e \in 1..Len(scall.log) : scall.log[e] = Event("assign", i, 0)
               /\ \A e \in 1..Len(scall.log) : ~(scall.log[e].b = i /\ scall.log[e].ev = "step")
               /\ DestAccepts(i, ExtractOf(i).val) =>
                     /\ ~FailedAt(i)
                     /\ ~WrittenLater(i) =>
                           TargetOf(sm.fieldMappings[i].to.name) = ExtractOf(i).val

\* C5 witness: a zero-step binding has copied a non-zero map entry into a field
\* of the destination.
C5_Witness ==
    /\ FromDone /\ scall.err = NoErr
    /\ Len(sm.fieldMappings) >= 1
    /\ ZeroStep(1)
    /\ scall.input.kind = "map"
    /\ ExtractOf(1).val = FieldS
    /\ SettableField(sm.TD, sm.fieldMappings[1].to.name)
    /\ scall.dest.fields[sm.fieldMappings[1].to.name] = FieldS

\* C6: when binding k is the first whose extraction, transformation or
\* assignment fails, From returns an error and no binding after k is evaluated:
\* its source is not read, its chain is not invoked, its target is not written.
C6_FailFast ==
    FromDone =>
        \A k \in 1..Len(sm.fieldMappings) :
            FirstFail(k) =>
                /\ scall.err # NoErr
                /\ scall.panic = ""
                /\ Reached(k)
                /\ \A j \in (k + 1)..Len(sm.fieldMappings) : ~Evaluated(j)
                /\ \A j \in (k + 1)..Len(sm.fieldMappings) :
                      (\A h \in 1..k : sm.fieldMappings[h].to.name # sm.fieldMappings[j].to.name)
                      => TargetOf(sm.fieldMappings[j].to.name)
                            = (IF SettableField(sm.TD, sm.fieldMappings[j].to.name)
                               THEN ZeroDest(sm.TD).fields[sm.fieldMappings[j].to.name]
                               ELSE ZeroDest(sm.TD).slots[sm.fieldMappings[j].to.name])

\* C6 witness: the first of two bindings fails, the second would succeed on its
\* own, and the call shows only the first.
C6_Witness ==
    /\ FromDone
    /\ Len(sm.fieldMappings) = 2
    /\ FirstFail(1)
    /\ ~BindingFails(2)
    /\ Evaluated(1) /\ ~Evaluated(2)
    /\ scall.err # NoErr

DistinctTargets ==
    \A i, j \in 1..Len(sm.fieldMappings) :
        i # j => sm.fieldMappings[i].to.name # sm.fieldMappings[j].to.name

\* The destination in which exactly the targets of bindings 1..k-1 hold their
\* mapped values and everything else is zero.
PartialDest(k) ==
    LET writer(n) == CHOOSE j \in 1..(k - 1) : sm.fieldMappings[j].to.name = n
        written(n) == \E j \in 1..(k - 1) : sm.fieldMappings[j].to.name = n
    IN  [fields |-> [n \in DstNames |->
                        IF written(n) /\ SettableField(sm.TD, n)
                        THEN MappedValueOf(writer(n)) ELSE ZeroDest(sm.TD).fields[n]],
         slots |-> [n \in DstNames |->
                        IF written(n) /\ ~SettableField(sm.TD, n)
                        THEN MappedValueOf(writer(n)) ELSE ZeroDest(sm.TD).slots[n]]]

\* C7: with distinct destination names, when binding k is the first to fail,
\* From returns the error together with a destination in which exactly the
\* targets of bindings 1..k-1 hold their mapped values and every other field,
\* the target of binding k included, holds its zero value.
C7_PartialDestination ==
    (FromDone /\ DistinctTargets) =>
        \A k \in 1..Len(sm.fieldMappings) :
            FirstFail(k) =>
                /\ scall.err # NoErr
                /\ scall.dest = PartialDest(k)

\* C7 witness: the second of two bindings with different targets fails after
\* the first has written a non-zero value; the target of the second is zero.
C7_Witness ==
    /\ FromDone /\ DistinctTargets
    /\ Len(sm.fieldMappings) = 2
    /\ FirstFail(2)
    /\ scall.err # NoErr
    /\ TargetOf(sm.fieldMappings[1].to.name) = FieldS
    /\ TargetOf(sm.fieldMappings[2].to.name) = Val("string", 0)
    /\ scall.dest # ZeroDest(sm.TD)

(***************************************************************************)
(* Properties of the transform mapper.                                     *)
(***************************************************************************)
TransformDone == tcall.op = "done"
Registered == tcall.source.Op \in DOMAIN tcall.m.resolver.mapping

\* C11: for every registry and every source whose key is not registered, From
\* returns the zero destination and a 'no transform for key' error naming the
\* key, and invokes no registered transform.
C11_NoTransformForKey ==
    (TransformDone /\ ~Registered) =>
        /\ tcall.val = TestDest(0)
        /\ tcall.err = <<Frame("no transform for key", 0, tcall.source.Op)>>
        /\ tcall.invoked = <<>>

\* C11 witness: a registry with two transforms has been asked for a key it does
\* not hold, with a source whose value is not zero.
C11_Witness ==
    /\ TransformDone /\ ~Registered
    /\ DOMAIN tcall.m.resolver.mapping = {"double", "triple"}
    /\ tcall.source.Value > 0
    /\ tcall.err # NoErr

\* C12: when the key of the source is registered, From invokes exactly one
\* transform, the one registered under that key, once, with the source and the
\* mapper's metadata, and returns its result and its error unchanged.
C12_Dispatch ==
    (TransformDone /\ Registered) =>
        LET fn == tcall.m.resolver.mapping[tcall.source.Op] IN
        /\ tcall.invoked = <<Invocation(fn, tcall.source, tcall.m.meta)>>
        /\ tcall.val = Transform(fn, tcall.source, tcall.m.meta).val
        /\ tcall.err = Transform(fn, tcall.source, tcall.m.meta).err

\* C12 witness: the transform registered under the key of the source has failed
\* with a non-zero result while another transform is registered under another
\* key, and both the result and the error have come back.
C12_Witness ==
    /\ TransformDone /\ Registered
    /\ tcall.m.resolver.mapping[tcall.source.Op] = "failing"
    /\ \E k \in DOMAIN tcall.m.resolver.mapping : tcall.m.resolver.mapping[k] = "double"
    /\ tcall.val # TestDest(0)
    /\ tcall.err = NewErr("transform failed")

(***************************************************************************)
(* Properties of the slice mapper.                                         *)
(***************************************************************************)
SliceCalled == slcall.op \in {"called", "both"}
SliceChained == slcall.op \in {"chained", "both"}

\* The element step on the element at position i of the source.
ElementResult(i) == StepFrom(slcall.stm.elementMapper, slcall.source.elems[i])
ElementOk(i) == ElementResult(i).panic = "" /\ ElementResult(i).err = NoErr
ElementFails(i) == ElementResult(i).panic = "" /\ ElementResult(i).err # NoErr
ElementOfD(i) == TypeAssertOk(ElementResult(i).val, slcall.stm.D)

\* The source passes `source.([]T)`.
SourceAccepted == "elems" \in DOMAIN slcall.source /\ slcall.source.typ = SliceType(slcall.stm.T)

\* The elements at positions 1..n were handed to the element step, once each,
\* in index order, and no other.
InvokedUpTo(n) ==
    /\ Len(slcall.log) = n
    /\ \A i \in 1..n : slcall.log[i] = Invoke(i - 1, slcall.source.elems[i])

\* C13 as stated: when the element step succeeds on every element, From returns
\* a sequence of the same length whose i-th element is the step's result on the
\* i-th element of the input, the step being invoked once per element in index
\* order.
C13_Original ==
    (/\ SliceCalled /\ SourceAccepted
     /\ \A i \in 1..Len(slcall.source.elems) : ElementOk(i))
    => /\ slcall.panic = "" /\ slcall.err = NoErr
       /\ "elems" \in DOMAIN slcall.val
       /\ Len(slcall.val.elems) = Len(slcall.source.elems)
       /\ \A i \in 1..Len(slcall.source.elems) : slcall.val.elems[i] = ElementResult(i).val
       /\ InvokedUpTo(Len(slcall.source.elems))

C15_Original ==
    /\ slcall.op # "none" =>
          /\ SliceMapperSourceType(slcall.stm) = TypeOfZero(slcall.stm.TSource)
          /\ SliceMapperTargetType(slcall.stm) = TypeOfZero(slcall.stm.TDest)
    /\ SliceChained => slcall.chain.state = "built"

\* The element type of a slice type.
ElemTypeOf(t) ==
    CASE t \in {"[]string", "Names"} -> "string"
      [] t = "[]int" -> "int"
      [] t = "[]any" -> "any"
      [] OTHER -> NilType

\* C16: From returns an 'invalid source type' error and does not invoke the
\* element step when the value is not a sequence of the declared element input
\* type, a []any of mixed members included.
C16_InvalidSourceType ==
    (/\ SliceCalled
     /\ ~("elems" \in DOMAIN slcall.source /\ ElemTypeOf(slcall.source.typ) = slcall.stm.T))
    => /\ slcall.err = NewErr("invalid source type")
       /\ slcall.val = Nil
       /\ slcall.panic = ""
       /\ slcall.log = <<>>

\* C16 witness: a mapper over string elements has been given a []any holding a
\* string and an int.
C16_Witness ==
    /\ SliceCalled
    /\ slcall.stm.T = "string"
    /\ slcall.source.typ = "[]any"
    /\ Len(slcall.source.elems) = 2
    /\ slcall.source.elems[1].typ = "string"
    /\ slcall.source.elems[2].typ = "int"
    /\ slcall.err = NewErr("invalid source type")
    /\ slcall.log = <<>>

C18_Isolation ==
    \A c \in Callers :
        /\ th[c].pc # "idle" => th[c].sm = sm
        /\ th[c].pc = "done" =>
              /\ th[c].dest = StructMapperFrom(sm, th[c].input).dest
              /\ th[c].err = StructMapperFrom(sm, th[c].input).err
              /\ th[c].panic = StructMapperFrom(sm, th[c].input).panic

\* C18 witness: two calls that were in flight together have returned, one with
\* an error after writing its first target, the other with no error and two
\* targets written.
C18_Witness ==
    /\ th["a"].pc = "done" /\ th["b"].pc = "done"
    /\ th["a"].overlapped /\ th["b"].overlapped
    /\ th["a"].err # NoErr
    /\ th["a"].dest.fields["X"] = FieldS
    /\ th["a"].dest.fields["Y"] = Val("string", 0)
    /\ th["b"].err = NoErr
    /\ th["b"].dest.fields["Y"] = FieldS

(***************************************************************************)
(* Properties of the builder's stages.                                     *)
(***************************************************************************)
ConversionOps == {"ConvertWith", "SkipConversion"}
ValidationOps == {"ValidateWith", "SkipValidation"}
OpsMade == [p \in 1..Len(client.ops) |-> client.ops[p].op]

\* C19 as stated: the only call sequence is From, To, one of ConvertWith and
\* SkipConversion, one of ValidateWith and SkipValidation, Build.
C19_Original ==
    /\ Len(OpsMade) <= 5
    /\ Len(OpsMade) >= 1 => OpsMade[1] = "From"
    /\ Len(OpsMade) >= 2 => OpsMade[2] = "To"
    /\ Len(OpsMade) >= 3 => OpsMade[3] \in ConversionOps
    /\ Len(OpsMade) >= 4 => OpsMade[4] \in ValidationOps
    /\ Len(OpsMade) >= 5 => OpsMade[5] = "Build"

\* The argument of the last call of method, NoStep when there is none.
LastArg(method) ==
    IF \E p \in 1..Len(client.ops) : client.ops[p].op = method
    THEN client.ops[CHOOSE p \in 1..Len(client.ops) :
                       /\ client.ops[p].op = method
                       /\ \A q \in (p + 1)..Len(client.ops) : client.ops[q].op # method].arg
    ELSE NoStep

\* C19 amended: the interface of each stage exposes only the operations of the
\* next stage, so the first call is From, every To follows it, every conversion
\* decision follows a To, every validation decision follows a conversion
\* decision and every Build follows a validation decision: Build cannot be
\* reached before a destination field, a conversion decision and a validation
\* decision.  Every method returns the same builder, so a client that keeps the
\* value of an earlier stage can call that stage's operations again, in any
\* order with the later ones; the builder then holds the converter of the last
\* ConvertWith and the validator of the last ValidateWith, which no later
\* SkipConversion or SkipValidation removes.
C19_StageOrder ==
    /\ \A p \in 1..Len(OpsMade) :
          /\ (OpsMade[p] = "From") = (p = 1)
          /\ OpsMade[p] \in ConversionOps => \E a \in 1..(p - 1) : OpsMade[a] = "To"
          /\ OpsMade[p] \in ValidationOps => \E a \in 1..(p - 1) : OpsMade[a] \in ConversionOps
          /\ OpsMade[p] = "Build" => \E a \in 1..(p - 1) : OpsMade[a] \in ValidationOps
    /\ \A p \in 1..Len(OpsMade) :
          OpsMade[p] = "Build" =>
              \E a, b, c \in 1..(p - 1) :
                  /\ a < b /\ b < c
                  /\ OpsMade[a] = "To" /\ OpsMade[b] \in ConversionOps
                  /\ OpsMade[c] \in ValidationOps
    /\ bld.modifyType = LastArg("ConvertWith")
    /\ bld.validate = LastArg("ValidateWith")
    /\ (\E p \in 1..Len(OpsMade) : OpsMade[p] = "To") = (bld.to # NoField)

\* C19 witness: after SkipConversion and SkipValidation the client has called
\* ConvertWith through the ConvertStep value it kept and then Build, and the
\* mapping built has the converter as its only step.
C19_Witness ==
    /\ OpsMade = <<"From", "To", "SkipConversion", "SkipValidation", "ConvertWith", "Build">>
    /\ bld.modifyType = StringToIntMapper
    /\ cm.state = "built"
    /\ fm.using.mappers = <<StringToIntMapper>>

(***************************************************************************)
(* Properties of the constructed objects' storage.                         *)
(***************************************************************************)
SameAsConstructed ==
    /\ cm = alias.orig.cm
    /\ sm = alias.orig.sm
    /\ tcall.m = alias.orig.m

AlignedNow == (cm.state = "built" /\ Len(cm.mappers) >= 1) => Aligned(cm.TS, cm.TD, cm.mappers)

LibDone(fn) == lcall.op = "done" /\ lcall.fn = fn

\* The runtime type of the source is not the input type the step declares.
SourceMismatch ==
    \/ LibDone("IdentityMapper.From") /\ ~TypeAssertOk(lcall.source, lcall.T)
    \/ LibDone("SliceMapper.From") /\ lcall.source.typ # SliceType(lcall.stm.T)

\* C21: IdentityMapper[T].From and SliceMapper.From, given a value whose runtime
\* type is not their declared input type, return a source-type-mismatch error
\* value: they do not panic and they return no result.
C21_Original ==
    SourceMismatch =>
        /\ lcall.panic = ""
        /\ lcall.err # NoErr
        /\ lcall.val \in {Nil, ZeroValue(lcall.T)}

Stored == lcall.name \in DOMAIN lcall.record
StoredOfT == Stored /\ TypeAssertOk(lcall.record[lcall.name], lcall.T)

\* C22: GetField returns the stored value and no error exactly when the record
\* has the field's name as a key and the stored value is of the field's type T
\* (a stored nil is of no type); when the key is missing or the stored value has
\* another type it returns T's zero value and a ValidationError carrying the
\* field name; the record is as it was before the call.
C22_GetField ==
    LibDone("GetField") =>
        /\ ~lcall.verr.set <=> StoredOfT
        /\ StoredOfT => lcall.val = lcall.record[lcall.name]
        /\ ~StoredOfT =>
              /\ lcall.val = ZeroValue(lcall.T)
              /\ lcall.verr.set
              /\ lcall.verr.Field = lcall.name
        /\ lcall.after = lcall.record

\* C22 witness: the key is there with a value that is not zero and not of T, and
\* GetField returned T's zero value and a ValidationError naming the field.
C22_Witness ==
    /\ LibDone("GetField")
    /\ Stored
    /\ lcall.T \in ConcreteTypes
    /\ lcall.record[lcall.name].typ \in ConcreteTypes \ {lcall.T}
    /\ lcall.record[lcall.name].v # 0
    /\ lcall.val = ZeroValue(lcall.T)
    /\ lcall.verr = ValidationError(lcall.name, lcall.record[lcall.name], "expected type")

(***************************************************************************)
(* Properties of longer chains.                                            *)
(***************************************************************************)
LastOutput == Compose(cm.mappers, Len(cm.mappers), call.input)

\* C23: if every step of a chain succeeds but the value the last step returned
\* is not of type TDest (the step returned a value of another type than it
\* declares, or nil), Map returns the zero value of TDest and a
\* final-type-mismatch error, not that value.
C23_FinalTypeMismatch ==
    (MapCalled /\ Len(cm.mappers) >= 1 /\ AllStepsOk(cm.mappers, call.input)
       /\ ~TypeAssertOk(LastOutput, cm.TD)) =>
        /\ call.panic = ""
        /\ call.val = ZeroValue(cm.TD)
        /\ call.err = NewErr("final type mismatch")

\* C23 witness: the last step of a chain to string returned an int that is not
\* the zero value, and Map returned "" with the final-type-mismatch error.
C23_Witness ==
    /\ MapCalled
    /\ Len(cm.mappers) >= 1
    /\ cm.TD = "string"
    /\ AllStepsOk(cm.mappers, call.input)
    /\ LastOutput = Val("int", 1)
    /\ call.val = Val("string", 0)
    /\ call.err = NewErr("final type mismatch")

SourceEndpointBad == cm.mappers[1].src # TypeOfZero(cm.TS)
DestEndpointBad == cm.mappers[Len(cm.mappers)].tgt # TypeOfZero(cm.TD)
PairBad(i) == cm.mappers[i].tgt # cm.mappers[i + 1].src
SomePairBad == \E i \in 1..(Len(cm.mappers) - 1) : PairBad(i)
\* The 0-based index of the first step whose output the next step does not take.
FirstBadPair == (CHOOSE i \in 1..(Len(cm.mappers) - 1) :
                    PairBad(i) /\ \A h \in 1..(i - 1) : ~PairBad(h)) - 1

\* C24: NewChainedMapper checks the source endpoint first, the destination
\* endpoint second and then the adjacent pairs in ascending index, and panics at
\* the first violation in that order; a pair violation names the 0-based
\* indices i and i+1 of the first offending pair.
C24_CheckOrder ==
    (cm.state # "none" /\ Len(cm.mappers) >= 1) =>
        /\ SourceEndpointBad =>
              cm.state = "panicked" /\ cm.panic.k = "first mapper must accept"
        /\ (~SourceEndpointBad /\ DestEndpointBad) =>
              cm.state = "panicked" /\ cm.panic.k = "last mapper must produce"
        /\ (~SourceEndpointBad /\ ~DestEndpointBad /\ SomePairBad) =>
              /\ cm.state = "panicked"
              /\ cm.panic.k = "type mismatch between mapper output and input"
              /\ cm.panic.i = FirstBadPair
              /\ cm.panic.j = FirstBadPair + 1

\* C24 witness: three steps with good endpoints and both pairs misaligned; the
\* panic names the pair 0, 1.
C24_Witness ==
    /\ cm.state = "panicked"
    /\ Len(cm.mappers) = 3
    /\ ~SourceEndpointBad /\ ~DestEndpointBad
    /\ PairBad(1) /\ PairBad(2)
    /\ cm.panic.i = 0 /\ cm.panic.j = 1

(***************************************************************************)
(* Properties of the chain a builder assembles.                            *)
(***************************************************************************)
Built == bld.stage = "BuildStep" /\ cm.state # "none"
HasConverter == bld.modifyType # NoStep
HasValidator == bld.validate # NoStep
\* The position in the chain of the validator, when one is attached.
ValidatorPosition == IF HasConverter THEN 2 ELSE 1

\* C25: Build() hands to the chain the attached converter, if any, followed by
\* the attached validator, if any, and nothing else; a Map of the built chain or
\* field mapping whose validator is the first step to fail reports it under its
\* position among the attached steps: 1 after SkipConversion, 2 after a converter.
C25_BuildOrder ==
    Built =>
        /\ Len(cm.mappers) = (IF HasConverter THEN 1 ELSE 0) + (IF HasValidator THEN 1 ELSE 0)
        /\ HasConverter => cm.mappers[1] = bld.modifyType
        /\ HasValidator => cm.mappers[ValidatorPosition] = bld.validate
        /\ (HasValidator /\ (MapCalled \/ (FieldMapCalled /\ call.chained))
              /\ FirstError(cm.mappers, ValidatorPosition, call.input)) =>
                /\ call.err = Wrap(Frame("mapper chain failed at step", ValidatorPosition, ""),
                                   StepFrom(bld.validate,
                                            Compose(cm.mappers, ValidatorPosition - 1,
                                                    call.input)).err)
                /\ Len(call.log) = ValidatorPosition
                /\ HasConverter => call.log[1].in = call.input
                                     /\ call.log[2].in = StepFrom(bld.modifyType, call.input).val

\* C25 witness: a validator attached after SkipConversion has rejected the input
\* of the built field mapping, and the error names step 1.
C25_Witness ==
    /\ Built
    /\ ~HasConverter
    /\ bld.validate = LevelValidator
    /\ FieldMapCalled
    /\ call.input = Val("int", 0)
    /\ call.err = Wrap(Frame("mapper chain failed at step", 1, ""), NewErr("level must be >= 1"))

(***************************************************************************)
(* Properties of the errors and of the order of StructMapper.From.         *)
(***************************************************************************)
FromName(i) == sm.fieldMappings[i].from.name
ToName(i) == sm.fieldMappings[i].to.name

\* C26: every error returned by StructMapper.From wraps the error of the phase
\* that failed and locates it: an extraction error and a transformation error
\* name the source field of the failing binding, an assignment error names its
\* destination field, and the three phases carry three different labels.
C26_ErrorContext ==
    (FromDone /\ scall.err # NoErr) =>
        /\ LastReached \in 1..Len(sm.fieldMappings)
        /\ scall.panic = ""
        /\ ExtractOf(LastReached).err # NoErr =>
              scall.err = Wrap(Frame("input error", 0, FromName(LastReached)),
                               ExtractOf(LastReached).err)
        /\ (ExtractOf(LastReached).err = NoErr /\ MapOf(LastReached).err # NoErr) =>
              scall.err = Wrap(Frame("mapping error", 0, FromName(LastReached)),
                               MapOf(LastReached).err)
        /\ (ExtractOf(LastReached).err = NoErr /\ MapOf(LastReached).err = NoErr) =>
              /\ AssignOf(LastReached).err # NoErr
              /\ scall.err = Wrap(Frame("output error", 0, ToName(LastReached)),
                                  AssignOf(LastReached).err)

\* C26 witness: the second binding's chain has failed at a step; the error is
\* the mapping error of the second source field around the chain's error.
C26_Witness ==
    /\ FromDone
    /\ Len(sm.fieldMappings) = 2
    /\ LastReached = 2
    /\ ExtractOf(2).err = NoErr
    /\ Len(scall.err) >= 3
    /\ scall.err[1] = Frame("mapping error", 0, FromName(2))
    /\ scall.err[2].k = "mapper chain failed at step"

\* The position in the log of the event ev of binding i, or 0.
EventAt(ev, i) ==
    IF \E e \in 1..Len(scall.log) : scall.log[e] = Event(ev, i, 0)
    THEN CHOOSE e \in 1..Len(scall.log) : scall.log[e] = Event(ev, i, 0)
    ELSE 0

\* C27: From processes the bindings one after another in list order: within a
\* binding the order is extract, transform (the steps of its chain), assign, and
\* the assignment of binding i is made before the extraction of binding i+1.
C27_BindingOrder ==
    FromDone =>
        /\ \A e, f \in 1..Len(scall.log) : e < f => scall.log[e].b <= scall.log[f].b
        /\ \A i \in 1..Len(sm.fieldMappings) :
              /\ EventAt("map", i) # 0 =>
                    EventAt("extract", i) # 0 /\ EventAt("extract", i) < EventAt("map", i)
              /\ EventAt("assign", i) # 0 =>
                    EventAt("map", i) # 0 /\ EventAt("map", i) < EventAt("assign", i)
              /\ \A e \in 1..Len(scall.log) :
                    (scall.log[e].b = i /\ scall.log[e].ev = "step") =>
                        /\ EventAt("map", i) # 0 /\ EventAt("map", i) < e
                        /\ EventAt("assign", i) # 0 => e < EventAt("assign", i)
              /\ (i > 1 /\ Reached(i)) =>
                    /\ EventAt("assign", i - 1) # 0
                    /\ EventAt("assign", i - 1) < EventAt("extract", i)
                    /\ AssignOf(i - 1).err = NoErr

\* C27 witness: two bindings have both run their chains and written their
\* targets, the first entirely before the second.
C27_Witness ==
    /\ FromDone /\ scall.err = NoErr /\ scall.panic = ""
    /\ Len(sm.fieldMappings) = 2
    /\ ~ZeroStep(1) /\ ~ZeroStep(2)
    /\ EventAt("assign", 1) + 1 = EventAt("extract", 2)
    /\ EventAt("assign", 2) = Len(scall.log)
    /\ TargetOf(ToName(1)) # ZeroOfType(TargetOf(ToName(1)).typ)

(***************************************************************************)
(* Properties of the builder as one object behind all its stage values.    *)
(***************************************************************************)
LastOp == IF client.ops = <<>> THEN "" ELSE client.ops[Len(client.ops)].op
StepsOf(c) == {c.mappers[i] : i \in 1..Len(c.mappers)}

\* What a call leaves of the builder's fields.
SkipKeepsFields ==
    (Len(client.ops') = Len(client.ops) + 1 /\ LastOp' \in {"SkipConversion", "SkipValidation"}) =>
        /\ bld'.modifyType = bld.modifyType
        /\ bld'.validate = bld.validate
        /\ bld'.from = bld.from
        /\ bld'.to = bld.to

\* A Build whose chain is accepted contains the converter stored before it.
BuildKeepsConverter ==
    (Len(client.ops') = Len(client.ops) + 1 /\ LastOp' = "Build"
       /\ bld.modifyType # NoStep /\ cm'.state = "built") =>
        /\ bld.modifyType \in StepsOf(fm'.using)
        /\ fm'.using.mappers[1] = LastArg("ConvertWith")

\* A Build right after a Build gives what the first one gave.
BuildTwice ==
    (Len(client.ops') = Len(client.ops) + 1 /\ LastOp' = "Build" /\ LastOp = "Build") =>
        /\ cm' = cm
        /\ fm' = fm

\* C28: all stage values of one builder are the same object: SkipConversion and
\* SkipValidation leave the stored converter and validator as they are, so a
\* SkipConversion called after ConvertWith(c) still leads to a chain that
\* contains c, and a second Build() on the same BuildStep value gives a field
\* mapping with the same fields and the same step list as the first.
C28_SameBuilder == [][SkipKeepsFields /\ BuildKeepsConverter /\ BuildTwice]_vars

\* C28 witness: ConvertWith, then SkipConversion through the ConvertStep value
\* kept, then SkipValidation and Build; the chain built holds the converter.
C28_Witness ==
    /\ OpsMade = <<"From", "To", "ConvertWith", "SkipConversion", "SkipValidation", "Build">>
    /\ cm.state = "built"
    /\ fm.using.mappers = <<client.ops[3].arg>>
    /\ client.ops[3].arg # NoStep

(***************************************************************************)
(* Panics on runtime data.                                                 *)
(***************************************************************************)
\* The element step has returned, without error, a value that is not of the
\* element output type D, on an element that From has handed to it.
ElementOfOtherType ==
    /\ SliceCalled /\ SourceAccepted
    /\ \E i \in 1..Len(slcall.source.elems) :
          /\ \A h \in 1..(i - 1) : ElementOk(h) /\ ElementOfD(h)
          /\ ElementOk(i) /\ ~ElementOfD(i)

\* C29: no call of ChainedMapper.Map, SliceMapper.From or StructMapper.From
\* panics on runtime data; an element step that returns a value not of the
\* declared element output type ends in a returned error value.
C29_Original ==
    /\ MapCalled => call.panic = ""
    /\ FromDone => scall.panic = ""
    /\ SliceCalled => slcall.panic = ""
    /\ ElementOfOtherType => slcall.err # NoErr

====
